---- MODULE Spec2Model ----
(***************************************************************************)
(* The per-workflow-execution transaction coordinator of                   *)
(* service/history/workflowExecutionContext.go.                            *)
(*                                                                         *)
(* Two coordinators ("a" and "b") cache the run R1, one coordinator ("n")  *)
(* is the context of the run R2 that a paired update, a reset or a create  *)
(* installs.  Every handler is one action; its storage calls and engine    *)
(* notifications are recorded, in order, in last.log.                      *)
(***************************************************************************)
EXTENDS Integers, Sequences, FiniteSets, TLC

VARIABLES
    ctx,        \* ctx[c]: the fields msBuilder, stats, updateCondition of context c
    db,         \* db[r]: the execution row of run r in the execution store, or Nil
    history,    \* history[r]: the event IDs of run r present in the history store
    last,       \* the most recent handler call: op, context, returned error, I/O log
    callers,    \* callers[p]: "holding" between a lock call of caller p that
                \* returned nil and its unlock, "idle" otherwise
    harness     \* the storage call in progress: its name, the outcome of each
                \* attempt so far, and the error returned to the coordinator

vars == <<ctx, db, history, last, callers, harness>>

----------------------------------------------------------------------------
\* Bounds of the model

\* largest event ID a mutable state may reach
MaxEventID == 4
\* most event batches pending in one transaction
MaxBatches == 2
\* bytes the history store reports for one persisted event
EventSize == 10

\* NextEventID of run R1 in the initial execution row
InitNextEventID == 2
\* replication version of the initial execution row
InitVersion == 1

Contexts == {"a", "b", "n"}
\* the goroutines that use one context
Callers == {"p", "q"}
CurrentContexts == {"a", "b"}
NewContext == "n"
Runs == {"R1", "R2"}

RunOf(c) == IF c = NewContext THEN "R2" ELSE "R1"

Nil == [nil |-> TRUE]

MaxOf(S) == CHOOSE x \in S : \A y \in S : y <= x

RECURSIVE Sum(_)
Sum(s) == IF s = <<>> THEN 0 ELSE Head(s) + Sum(Tail(s))

----------------------------------------------------------------------------
\* Tasks.  Transfer and timer tasks are identified by the run and the
\* operation that generated them; replication tasks carry the fields the
\* continue-as-new merge reads and writes.

TransferTask(id) == [kind |-> "transfer", id |-> id]
TimerTask(id) == [kind |-> "timer", id |-> id]

HistoryReplicationTask(token, version) ==
    [kind |-> "History", BranchToken |-> token, EventStoreVersion |-> version,
     NewRunBranchToken |-> "", NewRunEventStoreVersion |-> 0]

SyncActivityTask ==
    [kind |-> "SyncActivity", BranchToken |-> "", EventStoreVersion |-> 0,
     NewRunBranchToken |-> "", NewRunEventStoreVersion |-> 0]

\* the transfer/timer task lists a closer may produce for run r
TaskChoices(r) ==
    { [transfer |-> <<>>, timer |-> <<>>],
      [transfer |-> <<TransferTask(r)>>, timer |-> <<TimerTask(r)>>] }

UsualTasks(r) == [transfer |-> <<TransferTask(r)>>, timer |-> <<TimerTask(r)>>]

\* the replication task lists a closer may produce under a policy:
\* a passive transaction generates none
ReplicationChoices(policy, token, version) ==
    IF policy = "Passive" THEN { <<>> }
    ELSE { <<>>,
           <<HistoryReplicationTask(token, version)>>,
           <<SyncActivityTask>>,
           <<HistoryReplicationTask(token, version), SyncActivityTask>> }

EventStoreVersionOf(token) == IF token = "" THEN 0 ELSE 2

----------------------------------------------------------------------------
\* I/O log entries

CallEntry(name, req, res) == [type |-> "call", name |-> name, req |-> req, res |-> res]
NotifyEntry(name, tasks) == [type |-> "notify", name |-> name, tasks |-> tasks]

\* a lock call of a caller, with the state of its cancellation token
LockEntry(caller, cancelled) ==
    [type |-> "lock", name |-> "Lock", caller |-> caller, cancelled |-> cancelled]

IsCall(e, name) == e.type = "call" /\ e.name = name
IsNotify(e) == e.type = "notify"

Last(op, c, err, log) == [op |-> op, c |-> c, err |-> err, log |-> log]

\* The fault injected into one handler call: none, or the step that fails
\* (a closer, the append of the i-th batch, another storage call).  The first
\* failure ends a handler, so one failure point describes the call.
NoFault == [kind |-> "none", i |-> 0]
Fault(kind) == [kind |-> kind, i |-> 0]
AppendFault(i) == [kind |-> "append", i |-> i]
FailsAt(fault, kind) == fault.kind = kind
FailsAtBatch(fault, i) == fault.kind = "append" /\ fault.i = i

----------------------------------------------------------------------------
\* The mutable state builder (contract of the spec, section 6)

\* MutableState.Load: the in-memory image of an execution row
LoadMutableState(row) ==
    [nextEventID |-> row.nextEventID,
     nextEventIDInDB |-> row.nextEventID,
     batches |-> <<>>,
     closeStatus |-> row.closeStatus,
     replicated |-> row.replicated,
     version |-> row.version,
     replicationPolicy |-> "OneCluster",
     branchToken |-> row.branchToken,
     buffered |-> FALSE,
     children |-> 0,
     signals |-> 0,
     signalRequested |-> 0]

IsWorkflowExecutionRunning(ms) == ms.closeStatus = "None"

\* the pending event batches of a mutable state for run r, oldest first
RECURSIVE EventBatches(_, _, _, _, _)
EventBatches(r, token, sizes, nextEventID, version) ==
    IF sizes = <<>> THEN <<>>
    ELSE <<[RunID |-> r, BranchToken |-> token,
            FirstEventID |-> nextEventID - Sum(sizes),
            Version |-> version,
            Count |-> Head(sizes)]>>
         \o EventBatches(r, token, Tail(sizes), nextEventID, version)

BatchEvents(we) == we.FirstEventID .. (we.FirstEventID + we.Count - 1)


\* CloseTransactionAsMutation: the delta of ms, the event batches to persist,
\* and the mutable state after the transaction is closed.  The task lists
\* are what the builder generated during the transaction.
CloseTransactionAsMutation(ms, r, tasks, repl) ==
    [workflow |->
        [RunID |-> r,
         NextEventID |-> ms.nextEventID,
         CloseStatus |-> ms.closeStatus,
         Replicated |-> ms.replicated,
         Version |-> ms.version,
         BranchToken |-> ms.branchToken,
         ExecutionStats |-> Nil,
         TransferTasks |-> tasks.transfer,
         ReplicationTasks |-> repl,
         TimerTasks |-> tasks.timer,
         Condition |-> ms.nextEventIDInDB],
     events |-> EventBatches(r, ms.branchToken, ms.batches, ms.nextEventID, ms.version),
     ms |-> [ms EXCEPT !.batches = <<>>, !.nextEventIDInDB = ms.nextEventID]]

\* CloseTransactionAsSnapshot: the full image of ms and its event batches
CloseTransactionAsSnapshot(ms, r, tasks, repl) ==
    [workflow |->
        [RunID |-> r,
         NextEventID |-> ms.nextEventID,
         CloseStatus |-> ms.closeStatus,
         Replicated |-> ms.replicated,
         Version |-> ms.version,
         BranchToken |-> ms.branchToken,
         ExecutionStats |-> Nil,
         TransferTasks |-> tasks.transfer,
         ReplicationTasks |-> repl,
         TimerTasks |-> tasks.timer,
         ChildExecutionInfos |-> ms.children,
         SignalInfos |-> ms.signals,
         SignalRequestedIDs |-> ms.signalRequested],
     events |-> EventBatches(r, ms.branchToken, ms.batches, ms.nextEventID, ms.version)]

\* the execution row a committed mutation or snapshot leaves in the store
RowOf(w) ==
    [nextEventID |-> w.NextEventID,
     historySize |-> w.ExecutionStats.HistorySize,
     closeStatus |-> w.CloseStatus,
     replicated |-> w.Replicated,
     version |-> w.Version,
     branchToken |-> w.BranchToken]

----------------------------------------------------------------------------
\* The shard and the execution manager (persistence layer).  `fail` is a
\* storage fault that the retry policy did not outlive.

GetWorkflowExecution(row, fail) ==
    IF fail THEN "Storage" ELSE IF row = Nil THEN "NotExists" ELSE "ok"

\* the optimistic check of the execution store: the row's NextEventID must
\* equal the mutation's Condition; a new run must not exist yet
UpdateWorkflowExecution(rowCur, rowNew, mutation, snapshot, fail) ==
    IF fail THEN "Storage"
    ELSE IF rowCur = Nil \/ rowCur.nextEventID # mutation.Condition THEN "ConditionFailed"
    ELSE IF snapshot # Nil /\ rowNew # Nil THEN "AlreadyStarted"
    ELSE "ok"

\* a run is created once
CreateWorkflowExecution(row, fail) ==
    IF fail THEN "Storage" ELSE IF row # Nil THEN "AlreadyStarted" ELSE "ok"

\* the replaced run must exist
ConflictResolveWorkflowExecution(row, fail) ==
    IF fail THEN "Storage" ELSE IF row = Nil THEN "ConditionFailed" ELSE "ok"

\* the current run must be where the request says it is (the mutation's
\* Condition when the current run is updated), the new run must not exist
ResetWorkflowExecution(rowCur, rowNew, req, fail) ==
    IF fail THEN "Storage"
    ELSE IF rowCur = Nil THEN "ConditionFailed"
    ELSE IF req.CurrentWorkflowMutation # Nil
            /\ rowCur.nextEventID # req.CurrentWorkflowMutation.Condition
    THEN "ConditionFailed"
    ELSE IF rowNew # Nil THEN "AlreadyStarted"
    ELSE "ok"

----------------------------------------------------------------------------
\* The retry harness (contract of the spec, section 4.2): backoff.Retry runs
\* the operation again while the classifier calls its error transient and the
\* policy has attempts left, and returns the error of the last attempt.

\* the attempts the retry policy allows for one call
RetryBudget == 3

\* the errors common.IsPersistenceTransientError calls transient, and others
TransientErrors == {"ServiceBusy", "InternalService"}
TerminalErrors == {"ConditionFailed", "NotExists"}
Outcomes == {"ok"} \cup TransientErrors \cup TerminalErrors
IsPersistenceTransientError(err) == err \in TransientErrors

\* the storage calls the coordinator makes through a ...WithRetry helper
WrappedCalls ==
    {"GetWorkflowExecution", "AppendHistoryEvents", "AppendHistoryV2Events",
     "CreateWorkflowExecution", "UpdateWorkflowExecution"}
\* the storage calls the coordinator makes on the shard itself
DirectCalls == {"ConflictResolveWorkflowExecution", "ResetWorkflowExecution"}
StorageCalls == WrappedCalls \cup DirectCalls

IdleHarness == [call |-> "", state |-> "idle", attempts |-> <<>>, err |-> "nil"]
StartedCall(name) == [call |-> name, state |-> "running", attempts |-> <<>>, err |-> "nil"]

\* (variant: the error of the first attempt is returned, transient or not)
backoffRetryOnce(h, r) ==
    [h EXCEPT !.attempts = Append(@, r),
              !.state = "returned",
              !.err = IF r = "ok" THEN "nil" ELSE r]

\* one turn of the loop of backoff.Retry: the attempt ended with r
backoffRetry(h, r) ==
    LET attempts == Append(h.attempts, r)
    IN IF r = "ok"
       THEN [h EXCEPT !.attempts = attempts, !.state = "returned", !.err = "nil"]
       ELSE IF ~IsPersistenceTransientError(r) \/ Len(attempts) >= RetryBudget
       THEN [h EXCEPT !.attempts = attempts, !.state = "returned", !.err = r]
       ELSE [h EXCEPT !.attempts = attempts]

\* a call on the shard without the harness: the one attempt is the result
directCall(h, r) ==
    [h EXCEPT !.attempts = Append(@, r),
              !.state = "returned",
              !.err = IF r = "ok" THEN "nil" ELSE r]

----------------------------------------------------------------------------
\* The execution context

\* locks.Mutex (contract of the spec, section 4.1): Lock waits while the
\* mutex is held and gives up with an error when the caller's context is
\* done; it is not reentrant.  MutexCanReturn tells whether a Lock call
\* returns at all in the state of the mutex.
NewMutex == [locked |-> FALSE]
MutexCanReturn(m, cancelled) == cancelled \/ ~m.locked
MutexLock(m, cancelled) ==
    IF cancelled THEN [m |-> m, err |-> "Cancelled"]
    ELSE [m |-> [locked |-> TRUE], err |-> "nil"]
MutexUnlock(m) == [locked |-> FALSE]

NewWorkflowExecutionContext ==
    [mutex |-> NewMutex,
     msBuilder |-> Nil, stats |-> [HistorySize |-> 0], updateCondition |-> 0]

\* (variant: the error of mutex.Lock is dropped, lock always returns nil)
lockDropsError(cx, cancelled) ==
    [cx |-> [cx EXCEPT !.mutex = MutexLock(cx.mutex, cancelled).m], err |-> "nil"]

lock(cx, cancelled) ==
    LET r == MutexLock(cx.mutex, cancelled)
    IN [cx |-> [cx EXCEPT !.mutex = r.m], err |-> r.err]

unlock(cx) == [cx EXCEPT !.mutex = MutexUnlock(cx.mutex)]

\* (variant: clear resets updateCondition as well)
clearResetsCondition(cx) == [cx EXCEPT !.msBuilder = Nil, !.stats = Nil, !.updateCondition = 0]

clear(cx) == [cx EXCEPT !.msBuilder = Nil, !.stats = Nil]

setHistorySize(cx, size) == [cx EXCEPT !.stats = [HistorySize |-> size]]

\* (variant: the deferred function keeps the cache on a Conflict)
ClearOnErrorSkipsConflict(cx, err) ==
    IF err \notin {"nil", "panic", "Conflict"} THEN clear(cx) ELSE cx

\* the deferred function of the commit paths: clear when an error is returned
\* (a panic unwinds through it with retError still nil)
ClearOnError(cx, err) == IF err \notin {"nil", "panic"} THEN clear(cx) ELSE cx

getWorkflowExecutionWithRetry(row, fail) == GetWorkflowExecution(row, fail)

\* (variant: line 256 is missing, updateCondition is not set by a load)
loadWorkflowExecutionInternalKeepsCondition(cx, row, fail) ==
    IF cx.msBuilder # Nil
    THEN [cx |-> cx, err |-> "nil", log |-> <<>>]
    ELSE LET res == getWorkflowExecutionWithRetry(row, fail)
             entry == CallEntry("GetWorkflowExecution", Nil, res)
         IN IF res # "ok"
            THEN [cx |-> cx, err |-> res, log |-> <<entry>>]
            ELSE [cx |-> [cx EXCEPT !.msBuilder = LoadMutableState(row),
                                    !.stats = [HistorySize |-> row.historySize]],
                  err |-> "nil", log |-> <<entry>>]

\* (variant: the check of lines 236-238 is missing, every load fetches)
loadWorkflowExecutionInternalAlwaysFetches(cx, row, fail) ==
    LET res == getWorkflowExecutionWithRetry(row, fail)
        entry == CallEntry("GetWorkflowExecution", Nil, res)
    IN IF res # "ok"
       THEN [cx |-> cx, err |-> res, log |-> <<entry>>]
       ELSE [cx |-> [cx EXCEPT !.msBuilder = LoadMutableState(row),
                               !.stats = [HistorySize |-> row.historySize],
                               !.updateCondition = row.nextEventID],
             err |-> "nil", log |-> <<entry>>]

\* (variant: line 255 is missing, the fetched stats are not installed)
loadWorkflowExecutionInternalKeepsStats(cx, row, fail) ==
    IF cx.msBuilder # Nil
    THEN [cx |-> cx, err |-> "nil", log |-> <<>>]
    ELSE LET res == getWorkflowExecutionWithRetry(row, fail)
             entry == CallEntry("GetWorkflowExecution", Nil, res)
         IN IF res # "ok"
            THEN [cx |-> cx, err |-> res, log |-> <<entry>>]
            ELSE [cx |-> [cx EXCEPT !.msBuilder = LoadMutableState(row),
                                    !.updateCondition = row.nextEventID],
                  err |-> "nil", log |-> <<entry>>]

\* (variant: a failed fetch leaves a fresh stats record and a zero condition)
loadWorkflowExecutionInternalResetsOnError(cx, row, fail) ==
    IF cx.msBuilder # Nil
    THEN [cx |-> cx, err |-> "nil", log |-> <<>>]
    ELSE LET res == getWorkflowExecutionWithRetry(row, fail)
             entry == CallEntry("GetWorkflowExecution", Nil, res)
         IN IF res # "ok"
            THEN [cx |-> [cx EXCEPT !.stats = [HistorySize |-> 0],
                                    !.updateCondition = 0],
                  err |-> res, log |-> <<entry>>]
            ELSE [cx |-> [cx EXCEPT !.msBuilder = LoadMutableState(row),
                                    !.stats = [HistorySize |-> row.historySize],
                                    !.updateCondition = row.nextEventID],
                  err |-> "nil", log |-> <<entry>>]

loadWorkflowExecutionInternal(cx, row, fail) ==
    IF cx.msBuilder # Nil
    THEN [cx |-> cx, err |-> "nil", log |-> <<>>]
    ELSE LET res == getWorkflowExecutionWithRetry(row, fail)
             entry == CallEntry("GetWorkflowExecution", Nil, res)
         IN IF res # "ok"
            THEN [cx |-> cx, err |-> res, log |-> <<entry>>]
            ELSE [cx |-> [cx EXCEPT !.msBuilder = LoadMutableState(row),
                                    !.stats = [HistorySize |-> row.historySize],
                                    !.updateCondition = row.nextEventID],
                  err |-> "nil", log |-> <<entry>>]

\* the domain entries the domain cache may return
DomainEntries ==
    { [failoverVersion |-> InitVersion, replicationPolicy |-> "OneCluster", err |-> FALSE],
      [failoverVersion |-> 0, replicationPolicy |-> "OneCluster", err |-> TRUE] }

\* (variant: the return of lines 270-273 is missing, a finished workflow is
\* stamped like a running one)
updateVersionStampsFinished(cx, global, domain) ==
    IF global /\ cx.msBuilder.replicated
    THEN IF domain.err
         THEN [cx |-> cx, err |-> "DomainCache"]
         ELSE [cx |-> [cx EXCEPT !.msBuilder.version = domain.failoverVersion,
                                 !.msBuilder.replicationPolicy = domain.replicationPolicy],
               err |-> "nil"]
    ELSE [cx |-> cx, err |-> "nil"]

updateVersion(cx, global, domain) ==
    IF global /\ cx.msBuilder.replicated
    THEN IF ~IsWorkflowExecutionRunning(cx.msBuilder)
         THEN [cx |-> cx, err |-> "nil"]
         ELSE IF domain.err
         THEN [cx |-> cx, err |-> "DomainCache"]
         ELSE [cx |-> [cx EXCEPT !.msBuilder.version = domain.failoverVersion,
                                 !.msBuilder.replicationPolicy = domain.replicationPolicy],
               err |-> "nil"]
    ELSE [cx |-> cx, err |-> "nil"]

\* (variant: a failing hook drops what the fetch installed)
loadWorkflowExecutionDropsOnHookError(cx, row, fail, global, domain) ==
    LET l == loadWorkflowExecutionInternal(cx, row, fail)
    IN IF l.err # "nil" THEN l
       ELSE LET u == updateVersion(l.cx, global, domain)
            IN IF u.err # "nil"
               THEN [cx |-> clear(cx), err |-> u.err, log |-> l.log]
               ELSE [cx |-> u.cx, err |-> u.err, log |-> l.log]

loadWorkflowExecution(cx, row, fail, global, domain) ==
    LET l == loadWorkflowExecutionInternal(cx, row, fail)
    IN IF l.err # "nil" THEN l
       ELSE LET u == updateVersion(l.cx, global, domain)
            IN [cx |-> u.cx, err |-> u.err, log |-> l.log]


----------------------------------------------------------------------------
\* History appender

\* shard.AppendHistoryEvents / AppendHistoryV2Events under the retry policy:
\* the appended events and the byte size of the persisted payload
appendHistoryEventsWithRetry(we, fail) ==
    LET req == [RunID |-> we.RunID, FirstEventID |-> we.FirstEventID,
                EventBatchVersion |-> we.Version, Count |-> we.Count]
    IN IF fail
       THEN [err |-> "Storage", size |-> 0, events |-> {},
             log |-> <<CallEntry("AppendHistoryEvents", req, "Storage")>>]
       ELSE [err |-> "nil", size |-> we.Count * EventSize, events |-> BatchEvents(we),
             log |-> <<CallEntry("AppendHistoryEvents", req, "ok")>>]

appendHistoryV2EventsWithRetry(we, isNewBranch, fail) ==
    LET req == [RunID |-> we.RunID, BranchToken |-> we.BranchToken,
                IsNewBranch |-> isNewBranch,
                FirstEventID |-> we.FirstEventID, Count |-> we.Count]
    IN IF fail
       THEN [err |-> "Storage", size |-> 0, events |-> {},
             log |-> <<CallEntry("AppendHistoryV2Events", req, "Storage")>>]
       ELSE [err |-> "nil", size |-> we.Count * EventSize, events |-> BatchEvents(we),
             log |-> <<CallEntry("AppendHistoryV2Events", req, "ok")>>]

\* (variant: the check of lines 610-614 answers like the non-first path)
persistFirstWorkflowEventsAcceptsEmpty(we, fail) ==
    IF we.Count = 0
    THEN [err |-> "nil", size |-> 0, events |-> {}, log |-> <<>>]
    ELSE IF we.BranchToken = ""
    THEN appendHistoryEventsWithRetry(we, fail)
    ELSE appendHistoryV2EventsWithRetry(we, TRUE, fail)

\* (variant: IsNewBranch of line 643 is false)
persistFirstWorkflowEventsOldBranch(we, fail) ==
    IF we.Count = 0
    THEN [err |-> "Internal", size |-> 0, events |-> {}, log |-> <<>>]
    ELSE IF we.BranchToken = ""
    THEN appendHistoryEventsWithRetry(we, fail)
    ELSE appendHistoryV2EventsWithRetry(we, FALSE, fail)

persistFirstWorkflowEvents(we, fail) ==
    IF we.Count = 0
    THEN [err |-> "Internal", size |-> 0, events |-> {}, log |-> <<>>]
    ELSE IF we.BranchToken = ""
    THEN appendHistoryEventsWithRetry(we, fail)
    ELSE appendHistoryV2EventsWithRetry(we, TRUE, fail)

\* (variant: the return of lines 657-659 is missing, an empty batch is sent
\* to storage)
persistNonFirstWorkflowEventsAppendsEmpty(we, fail) ==
    IF we.BranchToken = ""
    THEN appendHistoryEventsWithRetry(we, fail)
    ELSE appendHistoryV2EventsWithRetry(we, FALSE, fail)

persistNonFirstWorkflowEvents(we, fail) ==
    IF we.Count = 0
    THEN [err |-> "nil", size |-> 0, events |-> {}, log |-> <<>>]
    ELSE IF we.BranchToken = ""
    THEN appendHistoryEventsWithRetry(we, fail)
    ELSE appendHistoryV2EventsWithRetry(we, FALSE, fail)

\* the loop over workflowEventsSeq of the update path, from batch i on:
\* stops at the first error
RECURSIVE PersistEventsSeq(_, _, _)
PersistEventsSeq(seq, i, fault) ==
    IF seq = <<>>
    THEN [err |-> "nil", size |-> 0, events |-> {}, log |-> <<>>]
    ELSE LET r == persistNonFirstWorkflowEvents(Head(seq), FailsAtBatch(fault, i))
         IN IF r.err # "nil"
            THEN [err |-> r.err, size |-> 0, events |-> {}, log |-> r.log]
            ELSE LET rest == PersistEventsSeq(Tail(seq), i + 1, fault)
                 IN [err |-> rest.err, size |-> r.size + rest.size,
                     events |-> r.events \cup rest.events,
                     log |-> r.log \o rest.log]

----------------------------------------------------------------------------
\* Notification fanout

notifyTasks(transferTasks, replicationTasks, timerTasks) ==
    << NotifyEntry("NotifyNewTransferTasks", transferTasks),
       NotifyEntry("NotifyNewReplicationTasks", replicationTasks),
       NotifyEntry("NotifyNewTimerTasks", timerTasks) >>

\* engine.NotifyNewHistoryEvent with the accessors read from the mutable state
notifyNewHistoryEvent(ms) ==
    << NotifyEntry("NotifyNewHistoryEvent",
                   [nextEventID |-> ms.nextEventID,
                    isRunning |-> IsWorkflowExecutionRunning(ms),
                    closeStatus |-> ms.closeStatus]) >>

----------------------------------------------------------------------------
\* Continue-as-new replication task merge

\* (variant: line 596 is missing, the event store version is not moved)
SetNewRunTokenOnly(task, token, version) ==
    IF task.kind = "History"
    THEN [task EXCEPT !.NewRunBranchToken = token]
    ELSE task

SetNewRun(task, token, version) ==
    IF task.kind = "History"
    THEN [task EXCEPT !.NewRunBranchToken = token, !.NewRunEventStoreVersion = version]
    ELSE task

\* (variant: the return of lines 573-575 is missing, a mutation without
\* replication tasks goes through the checks of the active case)
mergeContinueAsNewReplicationTasksNoPassiveCase(current, new) ==
    IF current.CloseStatus # "ContinuedAsNew"
    THEN [err |-> "nil", current |-> current, new |-> new]
    ELSE IF new = Nil \/ Len(new.ReplicationTasks) # 1
    THEN [err |-> "Internal", current |-> current, new |-> new]
    ELSE IF new.ReplicationTasks[1].kind # "History"
    THEN [err |-> "panic", current |-> current, new |-> new]
    ELSE LET newRunTask == new.ReplicationTasks[1]
             merged == [i \in 1..Len(current.ReplicationTasks) |->
                           SetNewRun(current.ReplicationTasks[i],
                                     newRunTask.BranchToken,
                                     newRunTask.EventStoreVersion)]
             taskUpdated == \E i \in 1..Len(current.ReplicationTasks) :
                               current.ReplicationTasks[i].kind = "History"
         IN [err |-> IF taskUpdated THEN "nil" ELSE "Internal",
             current |-> [current EXCEPT !.ReplicationTasks = merged],
             new |-> [new EXCEPT !.ReplicationTasks = <<>>]]

mergeContinueAsNewReplicationTasks(current, new) ==
    IF current.CloseStatus # "ContinuedAsNew"
    THEN [err |-> "nil", current |-> current, new |-> new]
    ELSE IF Len(current.ReplicationTasks) = 0
    THEN [err |-> "nil", current |-> current, new |-> new]
    ELSE IF new = Nil \/ Len(new.ReplicationTasks) # 1
    THEN [err |-> "Internal", current |-> current, new |-> new]
    ELSE IF new.ReplicationTasks[1].kind # "History"
    THEN \* the unchecked type assertion on the new run's task
         [err |-> "panic", current |-> current, new |-> new]
    ELSE LET newRunTask == new.ReplicationTasks[1]
             merged == [i \in 1..Len(current.ReplicationTasks) |->
                           SetNewRun(current.ReplicationTasks[i],
                                     newRunTask.BranchToken,
                                     newRunTask.EventStoreVersion)]
             taskUpdated == \E i \in 1..Len(current.ReplicationTasks) :
                               current.ReplicationTasks[i].kind = "History"
         IN [err |-> IF taskUpdated THEN "nil" ELSE "Internal",
             current |-> [current EXCEPT !.ReplicationTasks = merged],
             new |-> [new EXCEPT !.ReplicationTasks = <<>>]]


----------------------------------------------------------------------------
\* Update path

\* what a handler returns and leaves behind: the two contexts, the events it
\* appended to each run, the execution rows, the error and the I/O log
Result(cur, new, evCur, evNew, rowCur, rowNew, err, log) ==
    [cur |-> cur, new |-> new, evCur |-> evCur, evNew |-> evNew,
     rowCur |-> rowCur, rowNew |-> rowNew, err |-> err, log |-> log]

\* (variant: the case of lines 819-820 is missing, the storage error is returned)
updateWorkflowExecutionWithRetryUntranslated(rowCur, rowNew, mutation, snapshot, fail) ==
    LET res == UpdateWorkflowExecution(rowCur, rowNew, mutation, snapshot, fail)
    IN [err |-> IF res = "ok" THEN "nil" ELSE res,
        log |-> <<CallEntry("UpdateWorkflowExecution",
                            [mutation |-> mutation, snapshot |-> snapshot], res)>>]

\* the shard call under the retry policy and the translation of its error
updateWorkflowExecutionWithRetry(rowCur, rowNew, mutation, snapshot, fail) ==
    LET res == UpdateWorkflowExecution(rowCur, rowNew, mutation, snapshot, fail)
    IN [err |-> CASE res = "ok" -> "nil"
                  [] res = "ConditionFailed" -> "Conflict"
                  [] OTHER -> res,
        log |-> <<CallEntry("UpdateWorkflowExecution",
                            [mutation |-> mutation, snapshot |-> snapshot], res)>>]

\* (variant: line 500 is missing, updateCondition is not advanced)
CommitUpdateKeepsCondition(cx, nx, current, new, evCur, evNew, rowCur, rowNew, log, fail) ==
    LET m == mergeContinueAsNewReplicationTasks(current, new)
    IN IF m.err # "nil"
       THEN Result(cx, nx, evCur, evNew, rowCur, rowNew, m.err, log)
       ELSE LET u == updateWorkflowExecutionWithRetry(rowCur, rowNew, m.current, m.new, fail)
            IN IF u.err # "nil"
               THEN Result(cx, nx, evCur, evNew, rowCur, rowNew, u.err, log \o u.log)
               ELSE Result(cx, nx, evCur, evNew,
                           RowOf(m.current),
                           IF m.new = Nil THEN rowNew ELSE RowOf(m.new),
                           "nil",
                           log \o u.log
                               \o notifyNewHistoryEvent(cx.msBuilder)
                               \o notifyTasks(m.current.TransferTasks,
                                              m.current.ReplicationTasks,
                                              m.current.TimerTasks)
                               \o (IF m.new = Nil THEN <<>>
                                   ELSE notifyTasks(m.new.TransferTasks,
                                                    m.new.ReplicationTasks,
                                                    m.new.TimerTasks)))

\* (variant: the history-event notification of lines 503-511 comes after
\* the task fanout)
CommitUpdateNotifiesLast(cx, nx, current, new, evCur, evNew, rowCur, rowNew, log, fail) ==
    LET m == mergeContinueAsNewReplicationTasks(current, new)
    IN IF m.err # "nil"
       THEN Result(cx, nx, evCur, evNew, rowCur, rowNew, m.err, log)
       ELSE LET u == updateWorkflowExecutionWithRetry(rowCur, rowNew, m.current, m.new, fail)
            IN IF u.err # "nil"
               THEN Result(cx, nx, evCur, evNew, rowCur, rowNew, u.err, log \o u.log)
               ELSE Result([cx EXCEPT !.updateCondition = m.current.NextEventID], nx,
                           evCur, evNew,
                           RowOf(m.current),
                           IF m.new = Nil THEN rowNew ELSE RowOf(m.new),
                           "nil",
                           log \o u.log
                               \o notifyTasks(m.current.TransferTasks,
                                              m.current.ReplicationTasks,
                                              m.current.TimerTasks)
                               \o (IF m.new = Nil THEN <<>>
                                   ELSE notifyTasks(m.new.TransferTasks,
                                                    m.new.ReplicationTasks,
                                                    m.new.TimerTasks))
                               \o notifyNewHistoryEvent(cx.msBuilder))

\* lines 482-549: merge, commit, advance the condition, notify
CommitUpdate(cx, nx, current, new, evCur, evNew, rowCur, rowNew, log, fail) ==
    LET m == mergeContinueAsNewReplicationTasks(current, new)
    IN IF m.err # "nil"
       THEN Result(cx, nx, evCur, evNew, rowCur, rowNew, m.err, log)
       ELSE LET u == updateWorkflowExecutionWithRetry(rowCur, rowNew, m.current, m.new, fail)
            IN IF u.err # "nil"
               THEN Result(cx, nx, evCur, evNew, rowCur, rowNew, u.err, log \o u.log)
               ELSE Result([cx EXCEPT !.updateCondition = m.current.NextEventID], nx,
                           evCur, evNew,
                           RowOf(m.current),
                           IF m.new = Nil THEN rowNew ELSE RowOf(m.new),
                           "nil",
                           log \o u.log
                               \o notifyNewHistoryEvent(cx.msBuilder)
                               \o notifyTasks(m.current.TransferTasks,
                                              m.current.ReplicationTasks,
                                              m.current.TimerTasks)
                               \o (IF m.new = Nil THEN <<>>
                                   ELSE notifyTasks(m.new.TransferTasks,
                                                    m.new.ReplicationTasks,
                                                    m.new.TimerTasks)))

\* lines 457-480: close the new run as a snapshot and persist its first batch
CloseNewRun(cx, nx, current, in, evCur, rowCur, rowNew, log) ==
    IF FailsAt(in.fault, "closeNew")
    THEN Result(cx, nx, evCur, {}, rowCur, rowNew, "CloseSnapshotFailed", log)
    ELSE LET closed == CloseTransactionAsSnapshot(in.newMS, "R2", in.newTasks, in.newRepl)
         IN IF nx.stats = Nil \/ closed.events = <<>>
            THEN \* newContext.getHistorySize() on cleared stats, workflowEventsSeq[0]
                 Result(cx, nx, evCur, {}, rowCur, rowNew, "panic", log)
            ELSE LET p == persistFirstWorkflowEvents(closed.events[1],
                                                     FailsAt(in.fault, "appendFirst"))
                 IN IF p.err # "nil"
                    THEN Result(cx, nx, evCur, p.events, rowCur, rowNew, p.err,
                                log \o p.log)
                    ELSE LET size == nx.stats.HistorySize + p.size
                         IN CommitUpdate(cx, setHistorySize(nx, size), current,
                                [closed.workflow EXCEPT
                                    !.ExecutionStats = [HistorySize |-> size]],
                                evCur, p.events, rowCur, rowNew, log \o p.log,
                                FailsAt(in.fault, "commit"))

\* (variant: line 450 is missing, the sizes of the appends are not added)
UpdateBodyKeepsSize(cx, nx, rowCur, rowNew, r, in) ==
    IF cx.msBuilder = Nil \/ cx.stats = Nil
    THEN [res |-> Result(cx, nx, {}, {}, rowCur, rowNew, "panic", <<>>),
          registered |-> FALSE]
    ELSE IF FailsAt(in.fault, "closeCurrent")
    THEN [res |-> Result(cx, nx, {}, {}, rowCur, rowNew, "CloseMutationFailed", <<>>),
          registered |-> FALSE]
    ELSE LET closed == CloseTransactionAsMutation(cx.msBuilder, r, in.tasks, in.repl)
             p == PersistEventsSeq(closed.events, 1, in.fault)
             cx1 == [cx EXCEPT !.msBuilder = closed.ms]
         IN IF p.err # "nil"
            THEN [res |-> Result(cx1, nx, p.events, {}, rowCur, rowNew, p.err, p.log),
                  registered |-> FALSE]
            ELSE LET size == cx.stats.HistorySize
                     cx2 == setHistorySize(cx1, size)
                     current == [closed.workflow EXCEPT
                                    !.ExecutionStats = [HistorySize |-> size]]
                 IN IF in.paired
                    THEN [res |-> CloseNewRun(cx2, nx, current, in, p.events,
                                              rowCur, rowNew, p.log),
                          registered |-> TRUE]
                    ELSE [res |-> CommitUpdate(cx2, nx, current, Nil, p.events, {},
                                               rowCur, rowNew, p.log,
                                               FailsAt(in.fault, "commit")),
                          registered |-> FALSE]

\* the body of updateWorkflowExecutionWithNew without its deferred functions;
\* registered tells whether the deferred clear of the new context was set up
UpdateBody(cx, nx, rowCur, rowNew, r, in) ==
    IF cx.msBuilder = Nil \/ cx.stats = Nil
    THEN [res |-> Result(cx, nx, {}, {}, rowCur, rowNew, "panic", <<>>),
          registered |-> FALSE]
    ELSE IF FailsAt(in.fault, "closeCurrent")
    THEN [res |-> Result(cx, nx, {}, {}, rowCur, rowNew, "CloseMutationFailed", <<>>),
          registered |-> FALSE]
    ELSE LET closed == CloseTransactionAsMutation(cx.msBuilder, r, in.tasks, in.repl)
             p == PersistEventsSeq(closed.events, 1, in.fault)
             cx1 == [cx EXCEPT !.msBuilder = closed.ms]
         IN IF p.err # "nil"
            THEN [res |-> Result(cx1, nx, p.events, {}, rowCur, rowNew, p.err, p.log),
                  registered |-> FALSE]
            ELSE LET size == cx.stats.HistorySize + p.size
                     cx2 == setHistorySize(cx1, size)
                     current == [closed.workflow EXCEPT
                                    !.ExecutionStats = [HistorySize |-> size]]
                 IN IF in.paired
                    THEN [res |-> CloseNewRun(cx2, nx, current, in, p.events,
                                              rowCur, rowNew, p.log),
                          registered |-> TRUE]
                    ELSE [res |-> CommitUpdate(cx2, nx, current, Nil, p.events, {},
                                               rowCur, rowNew, p.log,
                                               FailsAt(in.fault, "commit")),
                          registered |-> FALSE]

\* (variant: the deferred clear of lines 434-438 is missing)
updateWorkflowExecutionWithNewNoDefer(cx, nx, rowCur, rowNew, r, in) ==
    UpdateBody(cx, nx, rowCur, rowNew, r, in).res

\* (variant: the deferred clear of the new context, lines 460-464, is missing)
updateWorkflowExecutionWithNewKeepsNew(cx, nx, rowCur, rowNew, r, in) ==
    LET b == UpdateBody(cx, nx, rowCur, rowNew, r, in)
    IN [b.res EXCEPT !.cur = ClearOnError(b.res.cur, b.res.err)]

updateWorkflowExecutionWithNew(cx, nx, rowCur, rowNew, r, in) ==
    LET b == UpdateBody(cx, nx, rowCur, rowNew, r, in)
    IN [b.res EXCEPT
           !.cur = ClearOnError(b.res.cur, b.res.err),
           !.new = IF b.registered THEN ClearOnError(b.res.new, b.res.err)
                   ELSE b.res.new]


updateWorkflowExecutionAsActive(cx, nx, rowCur, rowNew, r, in) ==
    updateWorkflowExecutionWithNew(cx, nx, rowCur, rowNew, r,
        [in EXCEPT !.paired = FALSE])

updateWorkflowExecutionAsPassive(cx, nx, rowCur, rowNew, r, in) ==
    updateWorkflowExecutionWithNew(cx, nx, rowCur, rowNew, r,
        [in EXCEPT !.paired = FALSE])

updateWorkflowExecutionWithNewAsActive(cx, nx, rowCur, rowNew, r, in) ==
    updateWorkflowExecutionWithNew(cx, nx, rowCur, rowNew, r,
        [in EXCEPT !.paired = TRUE])

updateWorkflowExecutionWithNewAsPassive(cx, nx, rowCur, rowNew, r, in) ==
    updateWorkflowExecutionWithNew(cx, nx, rowCur, rowNew, r,
        [in EXCEPT !.paired = TRUE])

----------------------------------------------------------------------------
\* Create path

createWorkflowExecutionWithRetry(row, request, fail) ==
    LET res == CreateWorkflowExecution(row, fail)
    IN [err |-> IF res = "ok" THEN "nil" ELSE res,
        log |-> <<CallEntry("CreateWorkflowExecution", request, res)>>]

\* (variant: the early return of lines 310-312 is missing, tasks are notified
\* whatever the create returned)
createWorkflowExecutionNotifiesAlways(cx, nx, row, rowNew, in) ==
    LET createRequest ==
            [CreateWorkflowMode |-> in.createMode,
             PreviousRunID |-> in.prevRunID,
             PreviousLastWriteVersion |-> in.prevLastWriteVersion,
             NewWorkflowSnapshot |->
                 [in.newWorkflow EXCEPT
                     !.ExecutionStats = [HistorySize |-> in.historySize]]]
        c == createWorkflowExecutionWithRetry(row, createRequest, FailsAt(in.fault, "create"))
    IN Result(cx, nx, {}, {},
              IF c.err # "nil" THEN row ELSE RowOf(createRequest.NewWorkflowSnapshot),
              rowNew, c.err,
              c.log \o notifyTasks(in.newWorkflow.TransferTasks,
                                   in.newWorkflow.ReplicationTasks,
                                   in.newWorkflow.TimerTasks))

\* (variant: line 299 is missing, the request names no previous run)
createWorkflowExecutionDropsPrevRun(cx, nx, row, rowNew, in) ==
    LET createRequest ==
            [CreateWorkflowMode |-> in.createMode,
             PreviousRunID |-> "",
             PreviousLastWriteVersion |-> in.prevLastWriteVersion,
             NewWorkflowSnapshot |->
                 [in.newWorkflow EXCEPT
                     !.ExecutionStats = [HistorySize |-> in.historySize]]]
        c == createWorkflowExecutionWithRetry(row, createRequest, FailsAt(in.fault, "create"))
    IN IF c.err # "nil"
       THEN Result(cx, nx, {}, {}, row, rowNew, c.err, c.log)
       ELSE Result(cx, nx, {}, {}, RowOf(createRequest.NewWorkflowSnapshot), rowNew, "nil",
                   c.log \o notifyTasks(in.newWorkflow.TransferTasks,
                                        in.newWorkflow.ReplicationTasks,
                                        in.newWorkflow.TimerTasks))

createWorkflowExecution(cx, nx, row, rowNew, in) ==
    LET createRequest ==
            [CreateWorkflowMode |-> in.createMode,
             PreviousRunID |-> in.prevRunID,
             PreviousLastWriteVersion |-> in.prevLastWriteVersion,
             NewWorkflowSnapshot |->
                 [in.newWorkflow EXCEPT
                     !.ExecutionStats = [HistorySize |-> in.historySize]]]
        c == createWorkflowExecutionWithRetry(row, createRequest, FailsAt(in.fault, "create"))
    IN IF c.err # "nil"
       THEN Result(cx, nx, {}, {}, row, rowNew, c.err, c.log)
       ELSE Result(cx, nx, {}, {}, RowOf(createRequest.NewWorkflowSnapshot), rowNew, "nil",
                   c.log \o notifyTasks(in.newWorkflow.TransferTasks,
                                        in.newWorkflow.ReplicationTasks,
                                        in.newWorkflow.TimerTasks))

----------------------------------------------------------------------------
\* Conflict-resolve path

\* (variant: the clear of line 366 is missing)
conflictResolveWorkflowExecutionNoClear(cx, nx, row, rowNew, r, in) ==
    IF FailsAt(in.fault, "closeReset")
    THEN Result(cx, nx, {}, {}, row, rowNew, "CloseSnapshotFailed", <<>>)
    ELSE LET closed == CloseTransactionAsSnapshot(in.resetMutableState, r, in.tasks, <<>>)
         IN IF Len(closed.events) # 0
            THEN Result(cx, nx, {}, {}, row, rowNew, "BadRequest", <<>>)
            ELSE LET resetWorkflow ==
                         [closed.workflow EXCEPT
                             !.ExecutionStats = [HistorySize |-> in.resetHistorySize]]
                     request == [PrevRunID |-> in.prevRunID,
                                 PrevLastWriteVersion |-> in.prevLastWriteVersion,
                                 PrevState |-> in.prevState,
                                 ResetWorkflowSnapshot |-> resetWorkflow]
                     res == ConflictResolveWorkflowExecution(
                                row, FailsAt(in.fault, "conflictResolve"))
                     log == <<CallEntry("ConflictResolveWorkflowExecution", request, res)>>
                 IN IF res # "ok"
                    THEN Result(cx, nx, {}, {}, row, rowNew, res, log)
                    ELSE LET l == loadWorkflowExecution(cx, RowOf(resetWorkflow),
                                      FailsAt(in.fault, "get"), TRUE, in.domain)
                         IN Result(l.cx, nx, {}, {}, RowOf(resetWorkflow), rowNew, l.err,
                                   log \o notifyTasks(resetWorkflow.TransferTasks,
                                                      resetWorkflow.ReplicationTasks,
                                                      resetWorkflow.TimerTasks)
                                       \o l.log)

\* (variant: the check of lines 339-343 is missing)
conflictResolveWorkflowExecutionAcceptsEvents(cx, nx, row, rowNew, r, in) ==
    IF FailsAt(in.fault, "closeReset")
    THEN Result(cx, nx, {}, {}, row, rowNew, "CloseSnapshotFailed", <<>>)
    ELSE LET closed == CloseTransactionAsSnapshot(in.resetMutableState, r, in.tasks, <<>>)
         IN IF FALSE
            THEN Result(cx, nx, {}, {}, row, rowNew, "BadRequest", <<>>)
            ELSE LET resetWorkflow ==
                         [closed.workflow EXCEPT
                             !.ExecutionStats = [HistorySize |-> in.resetHistorySize]]
                     request == [PrevRunID |-> in.prevRunID,
                                 PrevLastWriteVersion |-> in.prevLastWriteVersion,
                                 PrevState |-> in.prevState,
                                 ResetWorkflowSnapshot |-> resetWorkflow]
                     res == ConflictResolveWorkflowExecution(
                                row, FailsAt(in.fault, "conflictResolve"))
                     log == <<CallEntry("ConflictResolveWorkflowExecution", request, res)>>
                 IN IF res # "ok"
                    THEN Result(cx, nx, {}, {}, row, rowNew, res, log)
                    ELSE LET l == loadWorkflowExecution(clear(cx), RowOf(resetWorkflow),
                                      FailsAt(in.fault, "get"), TRUE, in.domain)
                         IN Result(l.cx, nx, {}, {}, RowOf(resetWorkflow), rowNew, l.err,
                                   log \o notifyTasks(resetWorkflow.TransferTasks,
                                                      resetWorkflow.ReplicationTasks,
                                                      resetWorkflow.TimerTasks)
                                       \o l.log)

conflictResolveWorkflowExecution(cx, nx, row, rowNew, r, in) ==
    IF FailsAt(in.fault, "closeReset")
    THEN Result(cx, nx, {}, {}, row, rowNew, "CloseSnapshotFailed", <<>>)
    ELSE LET closed == CloseTransactionAsSnapshot(in.resetMutableState, r, in.tasks, <<>>)
         IN IF Len(closed.events) # 0
            THEN Result(cx, nx, {}, {}, row, rowNew, "BadRequest", <<>>)
            ELSE LET resetWorkflow ==
                         [closed.workflow EXCEPT
                             !.ExecutionStats = [HistorySize |-> in.resetHistorySize]]
                     request == [PrevRunID |-> in.prevRunID,
                                 PrevLastWriteVersion |-> in.prevLastWriteVersion,
                                 PrevState |-> in.prevState,
                                 ResetWorkflowSnapshot |-> resetWorkflow]
                     res == ConflictResolveWorkflowExecution(
                                row, FailsAt(in.fault, "conflictResolve"))
                     log == <<CallEntry("ConflictResolveWorkflowExecution", request, res)>>
                 IN IF res # "ok"
                    THEN Result(cx, nx, {}, {}, row, rowNew, res, log)
                    ELSE LET l == loadWorkflowExecution(clear(cx), RowOf(resetWorkflow),
                                      FailsAt(in.fault, "get"), TRUE, in.domain)
                         IN Result(l.cx, nx, {}, {}, RowOf(resetWorkflow), rowNew, l.err,
                                   log \o notifyTasks(resetWorkflow.TransferTasks,
                                                      resetWorkflow.ReplicationTasks,
                                                      resetWorkflow.TimerTasks)
                                       \o l.log)

----------------------------------------------------------------------------
\* Reset path

\* (variant: line 975 is missing, the current replication tasks are dropped)
SubmitResetDropsReplication(cx, nx, currMutableState, resetWorkflow, in, evCur, evNew, rowCur, rowNew, log) ==
    LET mutation ==
            IF in.updateCurr
            THEN [RunID |-> "R1",
                  NextEventID |-> currMutableState.nextEventID,
                  CloseStatus |-> currMutableState.closeStatus,
                  Replicated |-> currMutableState.replicated,
                  Version |-> currMutableState.version,
                  BranchToken |-> currMutableState.branchToken,
                  ExecutionStats |-> [HistorySize |-> cx.stats.HistorySize],
                  UpsertsAndDeletes |-> 0,
                  TransferTasks |-> in.closeTask,
                  ReplicationTasks |-> <<>>,
                  TimerTasks |-> in.cleanupTask,
                  Condition |-> cx.updateCondition]
            ELSE Nil
        resetWFReq ==
            [BaseRunID |-> in.baseRunID,
             BaseRunNextEventID |-> in.baseRunNextEventID,
             CurrentRunID |-> "R1",
             CurrentRunNextEventID |-> currMutableState.nextEventID,
             CurrentWorkflowMutation |-> mutation,
             NewWorkflowSnapshot |-> resetWorkflow]
        res == ResetWorkflowExecution(rowCur, rowNew, resetWFReq, FailsAt(in.fault, "reset"))
        log2 == log \o <<CallEntry("ResetWorkflowExecution", resetWFReq, res)>>
    IN IF res # "ok"
       THEN Result(cx, nx, evCur, evNew, rowCur, rowNew, res, log2)
       ELSE Result(cx, nx, evCur, evNew,
                   IF mutation = Nil THEN rowCur ELSE RowOf(mutation),
                   RowOf(resetWorkflow), "nil",
                   log2 \o notifyTasks(resetWorkflow.TransferTasks,
                                       resetWorkflow.ReplicationTasks,
                                       resetWorkflow.TimerTasks)
                        \o (IF mutation = Nil THEN <<>>
                            ELSE notifyTasks(mutation.TransferTasks,
                                             mutation.ReplicationTasks,
                                             mutation.TimerTasks)))

\* (variant: the mutation of lines 952-981 is built whatever updateCurr is)
SubmitResetAlwaysMutates(cx, nx, currMutableState, resetWorkflow, in, evCur, evNew, rowCur, rowNew, log) ==
    LET mutation ==
            IF TRUE
            THEN [RunID |-> "R1",
                  NextEventID |-> currMutableState.nextEventID,
                  CloseStatus |-> currMutableState.closeStatus,
                  Replicated |-> currMutableState.replicated,
                  Version |-> currMutableState.version,
                  BranchToken |-> currMutableState.branchToken,
                  ExecutionStats |-> [HistorySize |-> cx.stats.HistorySize],
                  UpsertsAndDeletes |-> 0,
                  TransferTasks |-> in.closeTask,
                  ReplicationTasks |-> in.currReplicationTasks,
                  TimerTasks |-> in.cleanupTask,
                  Condition |-> cx.updateCondition]
            ELSE Nil
        resetWFReq ==
            [BaseRunID |-> in.baseRunID,
             BaseRunNextEventID |-> in.baseRunNextEventID,
             CurrentRunID |-> "R1",
             CurrentRunNextEventID |-> currMutableState.nextEventID,
             CurrentWorkflowMutation |-> mutation,
             NewWorkflowSnapshot |-> resetWorkflow]
        res == ResetWorkflowExecution(rowCur, rowNew, resetWFReq, FailsAt(in.fault, "reset"))
        log2 == log \o <<CallEntry("ResetWorkflowExecution", resetWFReq, res)>>
    IN IF res # "ok"
       THEN Result(cx, nx, evCur, evNew, rowCur, rowNew, res, log2)
       ELSE Result(cx, nx, evCur, evNew,
                   IF mutation = Nil THEN rowCur ELSE RowOf(mutation),
                   RowOf(resetWorkflow), "nil",
                   log2 \o notifyTasks(resetWorkflow.TransferTasks,
                                       resetWorkflow.ReplicationTasks,
                                       resetWorkflow.TimerTasks)
                        \o (IF mutation = Nil THEN <<>>
                            ELSE notifyTasks(mutation.TransferTasks,
                                             mutation.ReplicationTasks,
                                             mutation.TimerTasks)))

\* lines 940-1003: build the request, submit it, notify
SubmitReset(cx, nx, currMutableState, resetWorkflow, in, evCur, evNew, rowCur, rowNew, log) ==
    LET mutation ==
            IF in.updateCurr
            THEN [RunID |-> "R1",
                  NextEventID |-> currMutableState.nextEventID,
                  CloseStatus |-> currMutableState.closeStatus,
                  Replicated |-> currMutableState.replicated,
                  Version |-> currMutableState.version,
                  BranchToken |-> currMutableState.branchToken,
                  ExecutionStats |-> [HistorySize |-> cx.stats.HistorySize],
                  UpsertsAndDeletes |-> 0,
                  TransferTasks |-> in.closeTask,
                  ReplicationTasks |-> in.currReplicationTasks,
                  TimerTasks |-> in.cleanupTask,
                  Condition |-> cx.updateCondition]
            ELSE Nil
        resetWFReq ==
            [BaseRunID |-> in.baseRunID,
             BaseRunNextEventID |-> in.baseRunNextEventID,
             CurrentRunID |-> "R1",
             CurrentRunNextEventID |-> currMutableState.nextEventID,
             CurrentWorkflowMutation |-> mutation,
             NewWorkflowSnapshot |-> resetWorkflow]
        res == ResetWorkflowExecution(rowCur, rowNew, resetWFReq, FailsAt(in.fault, "reset"))
        log2 == log \o <<CallEntry("ResetWorkflowExecution", resetWFReq, res)>>
    IN IF res # "ok"
       THEN Result(cx, nx, evCur, evNew, rowCur, rowNew, res, log2)
       ELSE Result(cx, nx, evCur, evNew,
                   IF mutation = Nil THEN rowCur ELSE RowOf(mutation),
                   RowOf(resetWorkflow), "nil",
                   log2 \o notifyTasks(resetWorkflow.TransferTasks,
                                       resetWorkflow.ReplicationTasks,
                                       resetWorkflow.TimerTasks)
                        \o (IF mutation = Nil THEN <<>>
                            ELSE notifyTasks(mutation.TransferTasks,
                                             mutation.ReplicationTasks,
                                             mutation.TimerTasks)))

\* (variant: the check of lines 913-917 lets two or more batches through)
CloseResetRunAcceptsSeveral(cx, nx, currMutableState, in, evCur, rowCur, rowNew, log) ==
    IF FailsAt(in.fault, "closeNew")
    THEN Result(cx, nx, evCur, {}, rowCur, rowNew, "CloseSnapshotFailed", log)
    ELSE LET closed == CloseTransactionAsSnapshot(
                           [in.newMutableState EXCEPT !.buffered = FALSE],
                           "R2", UsualTasks("R2"), <<>>)
         IN IF Len(closed.events) = 0
            THEN Result(cx, nx, evCur, {}, rowCur, rowNew, "Internal", log)
            ELSE LET p == persistNonFirstWorkflowEvents(closed.events[1],
                                                        FailsAt(in.fault, "appendNew"))
                 IN IF p.err # "nil"
                    THEN Result(cx, nx, evCur, p.events, rowCur, rowNew, p.err,
                                log \o p.log)
                    ELSE LET resetWorkflow ==
                                 [closed.workflow EXCEPT
                                     !.ExecutionStats =
                                         [HistorySize |-> in.newHistorySize + p.size],
                                     !.TransferTasks = in.newTransferTasks,
                                     !.ReplicationTasks = in.newReplicationTasks,
                                     !.TimerTasks = in.newTimerTasks]
                         IN IF resetWorkflow.ChildExecutionInfos > 0
                               \/ resetWorkflow.SignalInfos > 0
                               \/ resetWorkflow.SignalRequestedIDs > 0
                            THEN Result(cx, nx, evCur, p.events, rowCur, rowNew,
                                        "Internal", log \o p.log)
                            ELSE SubmitReset(cx, nx, currMutableState, resetWorkflow, in,
                                             evCur, p.events, rowCur, rowNew,
                                             log \o p.log)

\* (variant: the check of lines 932-938 does not look at SignalRequestedIDs)
CloseResetRunIgnoresRequested(cx, nx, currMutableState, in, evCur, rowCur, rowNew, log) ==
    IF FailsAt(in.fault, "closeNew")
    THEN Result(cx, nx, evCur, {}, rowCur, rowNew, "CloseSnapshotFailed", log)
    ELSE LET closed == CloseTransactionAsSnapshot(
                           [in.newMutableState EXCEPT !.buffered = FALSE],
                           "R2", UsualTasks("R2"), <<>>)
         IN IF Len(closed.events) # 1
            THEN Result(cx, nx, evCur, {}, rowCur, rowNew, "Internal", log)
            ELSE LET p == persistNonFirstWorkflowEvents(closed.events[1],
                                                        FailsAt(in.fault, "appendNew"))
                 IN IF p.err # "nil"
                    THEN Result(cx, nx, evCur, p.events, rowCur, rowNew, p.err,
                                log \o p.log)
                    ELSE LET resetWorkflow ==
                                 [closed.workflow EXCEPT
                                     !.ExecutionStats =
                                         [HistorySize |-> in.newHistorySize + p.size],
                                     !.TransferTasks = in.newTransferTasks,
                                     !.ReplicationTasks = in.newReplicationTasks,
                                     !.TimerTasks = in.newTimerTasks]
                         IN IF resetWorkflow.ChildExecutionInfos > 0
                               \/ resetWorkflow.SignalInfos > 0
                            THEN Result(cx, nx, evCur, p.events, rowCur, rowNew,
                                        "Internal", log \o p.log)
                            ELSE SubmitReset(cx, nx, currMutableState, resetWorkflow, in,
                                             evCur, p.events, rowCur, rowNew,
                                             log \o p.log)

\* lines 902-938: close the new mutable state, persist its batch, check it
CloseResetRun(cx, nx, currMutableState, in, evCur, rowCur, rowNew, log) ==
    IF FailsAt(in.fault, "closeNew")
    THEN Result(cx, nx, evCur, {}, rowCur, rowNew, "CloseSnapshotFailed", log)
    ELSE LET closed == CloseTransactionAsSnapshot(
                           [in.newMutableState EXCEPT !.buffered = FALSE],
                           "R2", UsualTasks("R2"), <<>>)
         IN IF Len(closed.events) # 1
            THEN Result(cx, nx, evCur, {}, rowCur, rowNew, "Internal", log)
            ELSE LET p == persistNonFirstWorkflowEvents(closed.events[1],
                                                        FailsAt(in.fault, "appendNew"))
                 IN IF p.err # "nil"
                    THEN Result(cx, nx, evCur, p.events, rowCur, rowNew, p.err,
                                log \o p.log)
                    ELSE LET resetWorkflow ==
                                 [closed.workflow EXCEPT
                                     !.ExecutionStats =
                                         [HistorySize |-> in.newHistorySize + p.size],
                                     !.TransferTasks = in.newTransferTasks,
                                     !.ReplicationTasks = in.newReplicationTasks,
                                     !.TimerTasks = in.newTimerTasks]
                         IN IF resetWorkflow.ChildExecutionInfos > 0
                               \/ resetWorkflow.SignalInfos > 0
                               \/ resetWorkflow.SignalRequestedIDs > 0
                            THEN Result(cx, nx, evCur, p.events, rowCur, rowNew,
                                        "Internal", log \o p.log)
                            ELSE SubmitReset(cx, nx, currMutableState, resetWorkflow, in,
                                             evCur, p.events, rowCur, rowNew,
                                             log \o p.log)

\* the pending events of the history builder, as the one batch reset persists
HistoryBuilderEvents(ms, r) ==
    [RunID |-> r, BranchToken |-> ms.branchToken,
     FirstEventID |-> ms.nextEventID - Sum(ms.batches),
     Version |-> ms.version,
     Count |-> Sum(ms.batches)]

\* (variant: the check of lines 866-871 is missing)
resetWorkflowExecutionAcceptsBuffered(cx, nx, rowCur, rowNew, in) ==
    LET currMutableState == cx.msBuilder
    IN IF FALSE
       THEN Result(cx, nx, {}, {}, rowCur, rowNew, "Internal", <<>>)
       ELSE IF FailsAt(in.fault, "flushCurrent") \/ FailsAt(in.fault, "flushNew")
       THEN Result(cx, nx, {}, {}, rowCur, rowNew, "FlushFailed", <<>>)
       ELSE IF in.updateCurr
       THEN LET p == persistNonFirstWorkflowEvents(
                         HistoryBuilderEvents(currMutableState, "R1"),
                         FailsAt(in.fault, "appendCurrent"))
            IN IF p.err # "nil"
               THEN Result(cx, nx, p.events, {}, rowCur, rowNew, p.err, p.log)
               ELSE CloseResetRun(setHistorySize(cx, cx.stats.HistorySize + p.size),
                                  nx, currMutableState, in, p.events, rowCur, rowNew,
                                  p.log)
       ELSE CloseResetRun(cx, nx, currMutableState, in, {}, rowCur, rowNew, <<>>)

resetWorkflowExecution(cx, nx, rowCur, rowNew, in) ==
    LET currMutableState == cx.msBuilder
    IN IF in.newMutableState.buffered
       THEN Result(cx, nx, {}, {}, rowCur, rowNew, "Internal", <<>>)
       ELSE IF FailsAt(in.fault, "flushCurrent") \/ FailsAt(in.fault, "flushNew")
       THEN Result(cx, nx, {}, {}, rowCur, rowNew, "FlushFailed", <<>>)
       ELSE IF in.updateCurr
       THEN LET p == persistNonFirstWorkflowEvents(
                         HistoryBuilderEvents(currMutableState, "R1"),
                         FailsAt(in.fault, "appendCurrent"))
            IN IF p.err # "nil"
               THEN Result(cx, nx, p.events, {}, rowCur, rowNew, p.err, p.log)
               ELSE CloseResetRun(setHistorySize(cx, cx.stats.HistorySize + p.size),
                                  nx, currMutableState, in, p.events, rowCur, rowNew,
                                  p.log)
       ELSE CloseResetRun(cx, nx, currMutableState, in, {}, rowCur, rowNew, <<>>)

----------------------------------------------------------------------------
\* Inputs

Policies == {"Active", "Passive"}

\* a mutable state a caller hands over for a new run, with its pending batches
NewMutableState(sizes, token) ==
    [nextEventID |-> 1 + Sum(sizes),
     nextEventIDInDB |-> 1,
     batches |-> sizes,
     closeStatus |-> "None",
     replicated |-> TRUE,
     version |-> InitVersion,
     replicationPolicy |-> "OneCluster",
     branchToken |-> token,
     buffered |-> FALSE,
     children |-> 0,
     signals |-> 0,
     signalRequested |-> 0]

\* the usual new run: one batch on a history branch
UsualNewMutableState == NewMutableState(<<1>>, "B2")

\* the replication task lists the closer of a new run may produce
NewReplicationChoices(policy, token) ==
    IF policy = "Passive" THEN { <<>> }
    ELSE { <<>>,
           <<HistoryReplicationTask(token, EventStoreVersionOf(token))>>,
           <<SyncActivityTask>>,
           <<HistoryReplicationTask(token, EventStoreVersionOf(token)),
             HistoryReplicationTask(token, EventStoreVersionOf(token))>> }

UsualReplication(policy, token) ==
    IF policy = "Passive" THEN <<>>
    ELSE <<HistoryReplicationTask(token, EventStoreVersionOf(token))>>

UpdateInput(paired, fault, tasks, repl, newMS, newRepl) ==
    [paired |-> paired, fault |-> fault, tasks |-> tasks, repl |-> repl,
     newMS |-> newMS, newTasks |-> UsualTasks("R2"), newRepl |-> newRepl]

\* the faults that end an update before the new run is looked at
EarlyFaults == {Fault("closeCurrent")} \cup { AppendFault(i) : i \in 1..MaxBatches }

\* the inputs of an unpaired update of context c under a policy: every
\* output of the closer without a fault, the usual output with each fault
UnpairedInputs(c, policy) ==
    { UpdateInput(FALSE, NoFault, t, rp, Nil, <<>>) :
        t \in TaskChoices(RunOf(c)), rp \in ReplicationChoices(policy, "", 0) }
    \cup
    { UpdateInput(FALSE, f, UsualTasks(RunOf(c)), UsualReplication(policy, ""), Nil, <<>>) :
        f \in EarlyFaults \cup {Fault("commit")} }

\* the inputs of a paired update: every output of the two closers for the
\* usual new run without a fault; the usual outputs with each fault and with
\* each unusual new run (no batch, an empty batch, two batches, no branch)
PairedInputs(c, policy) ==
    { UpdateInput(TRUE, NoFault, t, rp, UsualNewMutableState, nrp) :
        t \in TaskChoices(RunOf(c)), rp \in ReplicationChoices(policy, "", 0),
        nrp \in NewReplicationChoices(policy, "B2") }
    \cup
    { UpdateInput(TRUE, f, UsualTasks(RunOf(c)), UsualReplication(policy, ""),
                  UsualNewMutableState, UsualReplication(policy, "B2")) :
        f \in EarlyFaults \cup {Fault("closeNew"), Fault("appendFirst"), Fault("commit")} }
    \cup
    { UpdateInput(TRUE, f, UsualTasks(RunOf(c)), UsualReplication(policy, ""),
                  NewMutableState(b, "B2"), UsualReplication(policy, "B2")) :
        f \in {NoFault}, b \in { <<>>, <<0>>, <<1, 1>> } }
    \cup
    { UpdateInput(TRUE, f, UsualTasks(RunOf(c)), UsualReplication(policy, ""),
                  NewMutableState(<<1>>, ""), UsualReplication(policy, "")) :
        f \in {NoFault, Fault("appendFirst")} }

\* the snapshot a caller hands to create: the image of a new run whose
\* first events it has already persisted
CreateInputs(r, events) ==
    { [newWorkflow |->
           CloseTransactionAsSnapshot(
               [NewMutableState(<<>>, IF r = "R1" THEN "" ELSE "B2")
                    EXCEPT !.nextEventID = MaxOf(events) + 1],
               r, t, rp).workflow,
       historySize |-> Cardinality(events) * EventSize,
       createMode |-> "BrandNew", prevRunID |-> "", prevLastWriteVersion |-> 0,
       fault |-> f] :
        t \in TaskChoices(r),
        rp \in { <<>>, <<HistoryReplicationTask("B2", 2)>> },
        f \in {NoFault, Fault("create")} }
    \cup
    { [newWorkflow |->
           CloseTransactionAsSnapshot(
               [NewMutableState(<<>>, IF r = "R1" THEN "" ELSE "B2")
                    EXCEPT !.nextEventID = MaxOf(events) + 1],
               r, UsualTasks(r), <<>>).workflow,
       historySize |-> Cardinality(events) * EventSize,
       createMode |-> "WorkflowIDReuse", prevRunID |-> "R1",
       prevLastWriteVersion |-> InitVersion,
       fault |-> NoFault] }

\* the replacement state of a conflict resolution, rebuilt from the first
\* m - 1 events of the history store; sizes are batches it should not have
ReplacementState(m, sizes, token) ==
    [NewMutableState(sizes, token) EXCEPT
        !.nextEventID = m + Sum(sizes), !.nextEventIDInDB = m]

ConflictResolveInput(ms, r, tasks, fault, domain) ==
    [resetMutableState |-> ms, tasks |-> tasks,
     resetHistorySize |-> (ms.nextEventIDInDB - 1) * EventSize,
     prevRunID |-> r, prevLastWriteVersion |-> 0, prevState |-> "Running",
     fault |-> fault, domain |-> domain]

OkDomain == CHOOSE d \in DomainEntries : ~d.err

ConflictResolveInputs(r, events, token) ==
    { ConflictResolveInput(ReplacementState(m, <<>>, token), r, t, NoFault, d) :
        m \in MaxOf(events)..(MaxOf(events) + 1), t \in TaskChoices(r),
        d \in DomainEntries }
    \cup
    { ConflictResolveInput(ReplacementState(MaxOf(events) + 1, <<>>, token), r,
                           UsualTasks(r), f, OkDomain) :
        f \in {Fault("closeReset"), Fault("conflictResolve"), Fault("get")} }
    \cup
    { ConflictResolveInput(ReplacementState(MaxOf(events), <<1>>, token), r,
                           UsualTasks(r), NoFault, OkDomain) }

\* the new mutable state of a reset, forked at the end of the events of the
\* new run's branch
ResetMutableState(events, sizes, buffered, pending) ==
    [NewMutableState(sizes, "B2") EXCEPT
        !.nextEventID = MaxOf(events) + 1 + Sum(sizes),
        !.nextEventIDInDB = MaxOf(events) + 1,
        !.buffered = buffered,
        !.children = IF pending = "child" THEN 1 ELSE 0,
        !.signals = IF pending = "signal" THEN 1 ELSE 0,
        !.signalRequested = IF pending = "signalRequested" THEN 1 ELSE 0]

ResetInput(events, ms, updateCurr, withTasks, replicated, fault) ==
    [updateCurr |-> updateCurr,
     closeTask |-> IF withTasks THEN <<TransferTask("close")>> ELSE <<>>,
     cleanupTask |-> IF withTasks THEN <<TimerTask("cleanup")>> ELSE <<>>,
     newMutableState |-> ms,
     newHistorySize |-> MaxOf(events) * EventSize,
     newTransferTasks |-> <<TransferTask("R2")>>,
     newTimerTasks |-> <<TimerTask("R2")>>,
     currReplicationTasks |->
         IF replicated THEN <<HistoryReplicationTask("", 0)>> ELSE <<>>,
     newReplicationTasks |->
         IF replicated THEN <<HistoryReplicationTask("B2", 2)>> ELSE <<>>,
     baseRunID |-> "R1",
     baseRunNextEventID |-> MaxOf(events) + 1,
     fault |-> fault]

ResetFaults ==
    { Fault(k) : k \in {"flushCurrent", "flushNew", "appendCurrent", "closeNew",
                        "appendNew", "reset"} }

ResetInputs(events) ==
    { ResetInput(events, ResetMutableState(events, <<1>>, FALSE, "none"), u, w, rp, NoFault) :
        u \in BOOLEAN, w \in BOOLEAN, rp \in BOOLEAN }
    \cup
    { ResetInput(events, ResetMutableState(events, <<1>>, FALSE, "none"), u, TRUE, TRUE, f) :
        u \in BOOLEAN, f \in ResetFaults }
    \cup
    { ResetInput(events, ResetMutableState(events, <<1>>, TRUE, "none"), u, TRUE, TRUE, f) :
        u \in BOOLEAN, f \in {NoFault, Fault("flushCurrent"), Fault("flushNew")} }
    \cup
    { ResetInput(events, ResetMutableState(events, b, FALSE, "none"), u, TRUE, TRUE, NoFault) :
        u \in BOOLEAN, b \in { <<>>, <<1, 1>> } }
    \cup
    { ResetInput(events, ResetMutableState(events, <<1>>, FALSE, pd), u, TRUE, TRUE, NoFault) :
        u \in BOOLEAN, pd \in {"child", "signal", "signalRequested"} }

----------------------------------------------------------------------------
\* The state machine

Init ==
    /\ ctx = [c \in Contexts |-> NewWorkflowExecutionContext]
    /\ db = [r \in Runs |->
                IF r = "R1"
                THEN [nextEventID |-> InitNextEventID,
                      historySize |-> (InitNextEventID - 1) * EventSize,
                      closeStatus |-> "None",
                      replicated |-> TRUE,
                      version |-> InitVersion,
                      branchToken |-> ""]
                ELSE Nil]
    /\ history = [r \in Runs |-> IF r = "R1" THEN 1..(InitNextEventID - 1) ELSE {}]
    /\ last = Last("init", "a", "nil", <<>>)
    /\ callers = [p \in Callers |-> "idle"]
    /\ harness = IdleHarness

\* apply the result of a handler of context c whose paired context is n
Apply(op, c, res) ==
    /\ ctx' = [ctx EXCEPT ![NewContext] = res.new, ![c] = res.cur]
    /\ db' = [db EXCEPT !["R2"] = res.rowNew, ![RunOf(c)] = res.rowCur]
    /\ history' = [history EXCEPT !["R2"] = @ \cup res.evNew,
                                  ![RunOf(c)] = @ \cup res.evCur]
    /\ last' = Last(op, c, res.err, res.log)
    /\ UNCHANGED <<callers, harness>>

Load(c) ==
    \E fail \in BOOLEAN, domain \in DomainEntries :
        /\ fail => ~domain.err
        /\ LET l == loadWorkflowExecution(ctx[c], db[RunOf(c)], fail, TRUE, domain)
           IN /\ ctx' = [ctx EXCEPT ![c] = l.cx]
              /\ last' = Last("load", c, l.err, l.log)
              /\ UNCHANGED <<db, history, callers, harness>>

Clear(c) ==
    /\ ctx' = [ctx EXCEPT ![c] = clear(ctx[c])]
    /\ last' = Last("clear", c, "nil", <<>>)
    /\ UNCHANGED <<db, history, callers, harness>>

\* the caller mutates the loaded state: one more batch of k events, possibly
\* closing the workflow
AddEvents(ms, k, status) ==
    [ms EXCEPT !.nextEventID = @ + k,
               !.batches = Append(@, k),
               !.closeStatus = status]

Mutate(c) ==
    /\ ctx[c].msBuilder # Nil
    /\ IsWorkflowExecutionRunning(ctx[c].msBuilder)
    /\ Len(ctx[c].msBuilder.batches) < MaxBatches
    /\ \E k \in 0..1, status \in {"None", "ContinuedAsNew"} :
        /\ ctx[c].msBuilder.nextEventID + k <= MaxEventID
        /\ status # "None" => k > 0
        /\ ctx' = [ctx EXCEPT ![c].msBuilder = AddEvents(@, k, status)]
    /\ last' = Last("mutate", c, "nil", <<>>)
    /\ UNCHANGED <<db, history, callers, harness>>

UpdateAsActive(c) ==
    \E in \in UnpairedInputs(c, "Active") :
        Apply("update", c,
              updateWorkflowExecutionAsActive(ctx[c], ctx[NewContext], db[RunOf(c)],
                                              db["R2"], RunOf(c), in))

UpdateAsPassive(c) ==
    \E in \in UnpairedInputs(c, "Passive") :
        Apply("update", c,
              updateWorkflowExecutionAsPassive(ctx[c], ctx[NewContext], db[RunOf(c)],
                                               db["R2"], RunOf(c), in))

UpdateWithNewAsActive(c) ==
    /\ c # NewContext
    /\ \E in \in PairedInputs(c, "Active") :
        Apply("updateWithNew", c,
              updateWorkflowExecutionWithNewAsActive(ctx[c], ctx[NewContext],
                                                     db[RunOf(c)], db["R2"], RunOf(c), in))

UpdateWithNewAsPassive(c) ==
    /\ c # NewContext
    /\ \E in \in PairedInputs(c, "Passive") :
        Apply("updateWithNew", c,
              updateWorkflowExecutionWithNewAsPassive(ctx[c], ctx[NewContext],
                                                      db[RunOf(c)], db["R2"], RunOf(c), in))

\* the caller persists the first batch of the new run before it creates it
PersistFirst(c) ==
    /\ db[RunOf(c)] = Nil
    /\ history[RunOf(c)] = {}
    /\ \E count \in 0..1, fail \in BOOLEAN :
        LET we == [RunID |-> RunOf(c), BranchToken |-> "B2",
                   FirstEventID |-> 1, Version |-> InitVersion, Count |-> count]
            p == persistFirstWorkflowEvents(we, fail)
        IN /\ history' = [history EXCEPT ![RunOf(c)] = @ \cup p.events]
           /\ last' = Last("persistFirst", c, p.err, p.log)
    /\ UNCHANGED <<ctx, db, callers, harness>>

\* the caller forks the branch of the new run from the base run before a reset
ForkHistoryBranch ==
    /\ db["R2"] = Nil
    /\ history["R2"] = {}
    /\ \E base \in 2..(MaxOf(history["R1"]) + 1) :
        history' = [history EXCEPT !["R2"] = 1..(base - 1)]
    /\ last' = Last("fork", NewContext, "nil", <<>>)
    /\ UNCHANGED <<ctx, db, callers, harness>>

Create(c) ==
    /\ history[RunOf(c)] # {}
    /\ \E in \in CreateInputs(RunOf(c), history[RunOf(c)]) :
        Apply("create", c,
              createWorkflowExecution(ctx[c], ctx[NewContext], db[RunOf(c)], db["R2"], in))

ConflictResolve(c) ==
    /\ db[RunOf(c)] # Nil
    /\ \E in \in ConflictResolveInputs(RunOf(c), history[RunOf(c)],
                                       db[RunOf(c)].branchToken) :
        Apply("conflictResolve", c,
              conflictResolveWorkflowExecution(ctx[c], ctx[NewContext], db[RunOf(c)],
                                               db["R2"], RunOf(c), in))

\* (a failed reset leaves the bytes it appended in the cached history size
\* and the events it appended on the new run's branch; the guards bound both)
Reset(c) ==
    /\ c # NewContext
    /\ ctx[c].msBuilder # Nil
    /\ ctx[c].stats.HistorySize <= (ctx[c].msBuilder.nextEventID - 1) * EventSize
    /\ db["R2"] = Nil
    /\ history["R2"] # {}
    /\ MaxOf(history["R2"]) < MaxEventID
    /\ \E in \in ResetInputs(history["R2"]) :
        Apply("reset", c,
              resetWorkflowExecution(ctx[c], ctx[NewContext], db[RunOf(c)], db["R2"], in))

\* an unrecovered panic ends the process
Alive == last.err # "panic"

\* caller p calls lock on context c; the call returns when the mutex lets it
LockCall(p, c) ==
    /\ \E cancelled \in BOOLEAN :
        /\ MutexCanReturn(ctx[c].mutex, cancelled)
        /\ LET r == lock(ctx[c], cancelled)
           IN /\ ctx' = [ctx EXCEPT ![c] = r.cx]
              /\ callers' = IF r.err = "nil" THEN [callers EXCEPT ![p] = "holding"]
                            ELSE callers
              /\ last' = Last("lock", c, r.err, <<LockEntry(p, cancelled)>>)
    /\ UNCHANGED <<db, history, harness>>

\* the holder releases the context
UnlockCall(p, c) ==
    /\ callers[p] = "holding"
    /\ ctx' = [ctx EXCEPT ![c] = unlock(ctx[c])]
    /\ callers' = [callers EXCEPT ![p] = "idle"]
    /\ last' = Last("unlock", c, "nil", <<>>)
    /\ UNCHANGED <<db, history, harness>>

\* the update paths of coordinator "a", paired with the context "n"
Next ==
    \/ \E c \in {"a", "n"} : Alive /\ Load(c)
    \/ \E c \in {"a", "n"} : Alive /\ Clear(c)
    \/ Alive /\ Mutate("a")
    \/ Alive /\ UpdateAsActive("a")
    \/ Alive /\ UpdateAsPassive("a")
    \/ Alive /\ UpdateWithNewAsActive("a")
    \/ Alive /\ UpdateWithNewAsPassive("a")

Spec == Init /\ [][Next]_vars

\* every commit path of coordinator "a": update, create, conflict-resolve
\* and reset, with the caller's steps that prepare the new run's history
NextCommit ==
    \/ Alive /\ Load("a")
    \/ Alive /\ Clear("a")
    \/ Alive /\ Mutate("a")
    \/ Alive /\ UpdateAsActive("a")
    \/ Alive /\ PersistFirst("n")
    \/ Alive /\ ForkHistoryBranch
    \/ Alive /\ Create("n")
    \/ Alive /\ ConflictResolve("a")
    \/ Alive /\ Reset("a")

SpecCommit == Init /\ [][NextCommit]_vars

\* two coordinators of the same run
NextRace ==
    \/ \E c \in CurrentContexts : Load(c)
    \/ \E c \in CurrentContexts : Clear(c)
    \/ \E c \in CurrentContexts : Mutate(c)
    \/ \E c \in CurrentContexts : UpdateAsActive(c)
    \/ \E c \in CurrentContexts : UpdateAsPassive(c)

SpecRace == Init /\ [][NextRace]_vars

\* two callers of the context "a"; each holds the lock for its load, mutate
\* and commit steps, as the callers of the context do
NextLock ==
    \/ \E p \in Callers : Alive /\ LockCall(p, "a")
    \/ \E p \in Callers : Alive /\ UnlockCall(p, "a")
    \/ \E p \in Callers : Alive /\ callers[p] = "holding" /\ Load("a")
    \/ \E p \in Callers : Alive /\ callers[p] = "holding" /\ Mutate("a")
    \/ \E p \in Callers : Alive /\ callers[p] = "holding" /\ UpdateAsActive("a")

SpecLock == Init /\ [][NextLock]_vars

\* Loads under every cluster metadata and every answer of the domain cache:
\* the stored workflow has replication state or not, the domain may have
\* failed over to a later version and to another replication policy.
FailoverDomainEntries ==
    { [failoverVersion |-> v, replicationPolicy |-> rp, err |-> e] :
        v \in InitVersion..(InitVersion + 1),
        rp \in {"OneCluster", "MultiCluster"},
        e \in BOOLEAN }

InitHook ==
    /\ ctx = [c \in Contexts |-> NewWorkflowExecutionContext]
    /\ \E replicated \in BOOLEAN :
         db = [r \in Runs |->
                 IF r = "R1"
                 THEN [nextEventID |-> InitNextEventID,
                       historySize |-> (InitNextEventID - 1) * EventSize,
                       closeStatus |-> "None",
                       replicated |-> replicated,
                       version |-> InitVersion,
                       branchToken |-> ""]
                 ELSE Nil]
    /\ history = [r \in Runs |-> IF r = "R1" THEN 1..(InitNextEventID - 1) ELSE {}]
    /\ last = Last("init", "a", "nil", <<>>)
    /\ callers = [p \in Callers |-> "idle"]
    /\ harness = IdleHarness

\* loadWorkflowExecution with IsGlobalDomainEnabled() and the domain entry
\* as the cluster metadata and the domain cache give them at this call
LoadWithMetadata(c) ==
    \E global \in BOOLEAN, domain \in FailoverDomainEntries :
        LET l == loadWorkflowExecution(ctx[c], db[RunOf(c)], FALSE, global, domain)
        IN /\ ctx' = [ctx EXCEPT ![c] = l.cx]
           /\ last' = Last("load", c, l.err, l.log)
           /\ UNCHANGED <<db, history, callers, harness>>

NextHook ==
    \/ Alive /\ LoadWithMetadata("a")
    \/ Alive /\ Clear("a")
    \/ Alive /\ Mutate("a")
    \/ Alive /\ UpdateAsActive("a")

SpecHook == InitHook /\ [][NextHook]_vars

\* the commit paths that install or replace a run: create, conflict-resolve
\* and reset of coordinator "a", with the caller's steps around them
NextInstall ==
    \/ Alive /\ Load("a")
    \/ Alive /\ Mutate("a")
    \/ Alive /\ PersistFirst("n")
    \/ Alive /\ ForkHistoryBranch
    \/ Alive /\ Create("n")
    \/ Alive /\ ConflictResolve("a")
    \/ Alive /\ Reset("a")

SpecInstall == Init /\ [][NextInstall]_vars

\* The storage calls of the coordinator, attempt by attempt.
StartStorageCall(name) ==
    /\ harness.state # "running"
    /\ harness' = StartedCall(name)
    /\ UNCHANGED <<ctx, db, history, last, callers>>

\* an attempt of a call made through a ...WithRetry helper
AttemptWrapped ==
    /\ harness.state = "running"
    /\ harness.call \in WrappedCalls
    /\ \E r \in Outcomes : harness' = backoffRetry(harness, r)
    /\ UNCHANGED <<ctx, db, history, last, callers>>

\* the attempt of a call made on the shard itself
AttemptDirect ==
    /\ harness.state = "running"
    /\ harness.call \in DirectCalls
    /\ \E r \in Outcomes : harness' = directCall(harness, r)
    /\ UNCHANGED <<ctx, db, history, last, callers>>

NextRetry ==
    \/ \E name \in StorageCalls : StartStorageCall(name)
    \/ AttemptWrapped
    \/ AttemptDirect

\* an attempt in progress ends: storage calls rely on their own deadlines
SpecRetry ==
    Init /\ [][NextRetry]_vars /\ WF_vars(AttemptWrapped) /\ WF_vars(AttemptDirect)

----------------------------------------------------------------------------
\* Properties

CommitCalls ==
    {"UpdateWorkflowExecution", "CreateWorkflowExecution",
     "ConflictResolveWorkflowExecution", "ResetWorkflowExecution"}
AppendCalls == {"AppendHistoryEvents", "AppendHistoryV2Events"}

IsUpdateOp(l) == l.op \in {"update", "updateWithNew"}
\* the handler returned a non-nil error (a panic returns nothing)
ReturnedError(l) == l.err \notin {"nil", "panic"}
Cleared(cx) == cx.msBuilder = Nil /\ cx.stats = Nil

\* the positions of the calls of one of the named APIs in a log
CallsOf(log, names) ==
    { i \in 1..Len(log) : log[i].type = "call" /\ log[i].name \in names }
\* the positions of the appends to run r that stored at least one event
AppendsTo(log, r) ==
    { i \in CallsOf(log, AppendCalls) :
        log[i].req.RunID = r /\ log[i].res = "ok" /\ log[i].req.Count > 0 }
\* the update failed before the new run was looked at: at the close of the
\* current mutable state or at an append of the current run
FailedBeforeNewRun(l) ==
    \/ l.err = "CloseMutationFailed"
    \/ /\ l.log # <<>>
       /\ Len(l.log) \in CallsOf(l.log, AppendCalls)
       /\ l.log[Len(l.log)].res # "ok"
       /\ l.log[Len(l.log)].req.RunID = "R1"

Range(seq) == { seq[i] : i \in 1..Len(seq) }
TasksOf(w) ==
    IF w = Nil THEN {}
    ELSE Range(w.TransferTasks) \cup Range(w.ReplicationTasks) \cup Range(w.TimerTasks)
\* the tasks of the request of a commit call
RequestTasks(e) ==
    CASE e.name = "UpdateWorkflowExecution" ->
            TasksOf(e.req.mutation) \cup TasksOf(e.req.snapshot)
      [] e.name = "CreateWorkflowExecution" -> TasksOf(e.req.NewWorkflowSnapshot)
      [] e.name = "ConflictResolveWorkflowExecution" ->
            TasksOf(e.req.ResetWorkflowSnapshot)
      [] e.name = "ResetWorkflowExecution" ->
            TasksOf(e.req.CurrentWorkflowMutation) \cup TasksOf(e.req.NewWorkflowSnapshot)

\* C1: whenever an update (unpaired or paired, active or passive) returns an
\* error, whichever step produced it, the cached mutable state and the stats
\* of the current context are both nil at return.
UpdateErrorClearsCurrent ==
    (IsUpdateOp(last) /\ ReturnedError(last)) => Cleared(ctx[last.c])

\* an update whose storage commit failed, with the current context cleared
UpdateErrorClearsCurrentWitness ==
    /\ IsUpdateOp(last)
    /\ last.err = "Storage"
    /\ CallsOf(last.log, {"UpdateWorkflowExecution"}) # {}
    /\ Cleared(ctx[last.c])

\* C2, as stated: whenever create, conflict-resolve or reset returns an
\* error, the cached mutable state of the context is nil.
CommitErrorClears ==
    (last.op \in {"create", "conflictResolve", "reset"} /\ ReturnedError(last))
        => ctx[last.c].msBuilder = Nil

UpdateAdvancesCondition ==
    [][ (IsUpdateOp(last') /\ last'.err = "nil")
            => \A i \in CallsOf(last'.log, {"UpdateWorkflowExecution"}) :
                 /\ ctx'[last'.c].updateCondition = last'.log[i].req.mutation.NextEventID
                 /\ ctx'[last'.c].updateCondition = ctx'[last'.c].msBuilder.nextEventID
                 /\ AppendsTo(last'.log, RunOf(last'.c)) # {}
                        => ctx'[last'.c].updateCondition > ctx[last'.c].updateCondition ]_vars

\* a successful update that persisted an event batch and advanced the
\* condition past the initial NextEventID
UpdateAdvancesConditionWitness ==
    /\ IsUpdateOp(last)
    /\ last.err = "nil"
    /\ AppendsTo(last.log, RunOf(last.c)) # {}
    /\ CallsOf(last.log, {"UpdateWorkflowExecution"}) # {}
    /\ ctx[last.c].updateCondition > InitNextEventID

\* C5: every mutation an update submits to storage carries a Condition equal
\* to the updateCondition the context has when the commit is submitted, over
\* any sequence of load, update, clear, conflict-resolve and reset.
UpdateConditionIsUpdateCondition ==
    [][ IsUpdateOp(last')
            => \A i \in CallsOf(last'.log, {"UpdateWorkflowExecution"}) :
                 last'.log[i].req.mutation.Condition = ctx[last'.c].updateCondition ]_vars

\* an update accepted by storage under a Condition that an earlier commit
\* or reload installed
UpdateConditionIsUpdateConditionWitness ==
    /\ IsUpdateOp(last)
    /\ \E i \in CallsOf(last.log, {"UpdateWorkflowExecution"}) :
         /\ last.log[i].res = "ok"
         /\ last.log[i].req.mutation.Condition > InitNextEventID

\* C6: when the storage update fails with a condition-failed error, the
\* update returns Conflict, the persisted state is unchanged, updateCondition
\* is not advanced, no notification is emitted and the cache is nil.
ConditionFailedIsConflict ==
    [][ (IsUpdateOp(last')
         /\ \E i \in CallsOf(last'.log, {"UpdateWorkflowExecution"}) :
              last'.log[i].res = "ConditionFailed")
            => /\ last'.err = "Conflict"
               /\ db' = db
               /\ ctx'[last'.c].updateCondition = ctx[last'.c].updateCondition
               /\ \A i \in 1..Len(last'.log) : last'.log[i].type # "notify"
               /\ Cleared(ctx'[last'.c]) ]_vars

\* an update that appended a batch and lost the optimistic check
ConditionFailedIsConflictWitness ==
    /\ IsUpdateOp(last)
    /\ last.err = "Conflict"
    /\ AppendsTo(last.log, "R1") # {}
    /\ \E i \in CallsOf(last.log, {"UpdateWorkflowExecution"}) :
         last.log[i].res = "ConditionFailed"
    /\ ctx[last.c].msBuilder = Nil

\* C7, as stated: after an update that appended an event batch and failed at
\* the commit with a condition-failed error, the history size of the context
\* can be read and equals its value before the update.
ConflictKeepsHistorySize ==
    [][ (IsUpdateOp(last') /\ last'.err = "Conflict"
         /\ AppendsTo(last'.log, RunOf(last'.c)) # {})
            => /\ ctx'[last'.c].stats # Nil
               /\ ctx'[last'.c].stats.HistorySize = ctx[last'.c].stats.HistorySize ]_vars

\* C8: in create, update, conflict-resolve and reset, every notification
\* follows a commit call that storage accepted (so a failed commit is
\* followed by none), and every task notified is a task of that request.
NotifyAfterCommit ==
    \A i \in 1..Len(last.log) :
        last.log[i].type = "notify"
            => \E j \in CallsOf(last.log, CommitCalls) :
                 /\ j < i
                 /\ last.log[j].res = "ok"
                 /\ last.log[i].name # "NotifyNewHistoryEvent"
                        => Range(last.log[i].tasks) \subseteq RequestTasks(last.log[j])

\* a successful reset that updated the current run and notified tasks of
\* both runs
NotifyAfterCommitWitness ==
    /\ last.op = "reset"
    /\ last.err = "nil"
    /\ \E i \in 1..Len(last.log) :
         /\ last.log[i].type = "notify"
         /\ last.log[i].tasks = <<TransferTask("close")>>

\* C9, as stated: every event covered by a persisted execution state is
\* present in the history store.
HistoryCoversPersistedState ==
    \A r \in Runs :
        db[r] # Nil => (1..(db[r].nextEventID - 1)) \subseteq history[r]

\* C10: of two coordinators that cache the same persisted state, an update
\* of one that storage accepts carries the persisted NextEventID as its
\* Condition and, when it adds events, leaves the copy of the other behind
\* the persisted state; an update from a copy behind the persisted state is
\* refused, returns Conflict, leaves the persisted state as it is and ends
\* with its cache nil.
UpdateRaceHasOneWinner ==
    [][ \A c \in CurrentContexts :
          (IsUpdateOp(last') /\ last'.c = c)
            => \A i \in CallsOf(last'.log, {"UpdateWorkflowExecution"}) :
                 LET e == last'.log[i]
                     o == CHOOSE x \in CurrentContexts : x # c
                 IN /\ e.res = "ok"
                        => /\ e.req.mutation.Condition = db["R1"].nextEventID
                           /\ (ctx[o].msBuilder # Nil
                               /\ db'["R1"].nextEventID > db["R1"].nextEventID)
                                  => /\ ctx'[o] = ctx[o]
                                     /\ ctx'[o].msBuilder.nextEventIDInDB
                                            < db'["R1"].nextEventID
                    /\ e.res # "Storage"
                        => (e.res = "ConditionFailed"
                              <=> ctx[c].msBuilder.nextEventIDInDB # db["R1"].nextEventID)
                    /\ e.res = "ConditionFailed"
                        => /\ last'.err = "Conflict"
                           /\ db' = db
                           /\ Cleared(ctx'[c]) ]_vars

\* coordinator "a" won the race and still caches the state it committed,
\* coordinator "b" lost it with a batch appended and has its cache cleared
UpdateRaceHasOneWinnerWitness ==
    /\ last.op = "update"
    /\ last.c = "b"
    /\ last.err = "Conflict"
    /\ AppendsTo(last.log, "R1") # {}
    /\ Cleared(ctx["b"])
    /\ ctx["a"].msBuilder # Nil
    /\ ctx["a"].updateCondition = db["R1"].nextEventID
    /\ ctx["b"].updateCondition < ctx["a"].updateCondition

Holders == { p \in Callers : callers[p] = "holding" }

\* C11: at most one caller holds the lock of a context, and every load,
\* mutate and commit step is taken while exactly one caller holds it; a lock
\* call whose cancellation token is tripped returns an error and acquires
\* nothing; a lock call of the current holder never returns nil.
LockIsExclusive ==
    [][ /\ Cardinality(Holders') <= 1
        /\ ctx'["a"].mutex.locked <=> Holders' # {}
        /\ last'.op \in {"load", "mutate", "update"}
              => Cardinality(Holders) = 1 /\ Holders' = Holders
        /\ last'.op = "lock"
              => /\ last'.log[1].cancelled
                    => last'.err # "nil" /\ callers' = callers /\ ctx' = ctx
                 /\ callers[last'.log[1].caller] = "holding"
                    => last'.err # "nil" /\ callers' = callers
                 /\ last'.err = "nil"
                    => Holders = {} /\ Holders' = {last'.log[1].caller} ]_vars

\* caller p holds the lock with a loaded mutable state, and the lock call of
\* caller q, whose token is tripped, has returned an error
LockIsExclusiveWitness ==
    /\ last.op = "lock"
    /\ last.err = "Cancelled"
    /\ last.log[1].caller = "q"
    /\ callers = [p \in Callers |-> IF p = "p" THEN "holding" ELSE "idle"]
    /\ ctx["a"].mutex.locked
    /\ ctx["a"].msBuilder # Nil

\* a mutable state without the two fields the replication policy hook stamps
WithoutStamp(ms) == [ms EXCEPT !.version = 0, !.replicationPolicy = ""]

\* C12: a load on a context whose mutable state is cached (a second load
\* with no clear or failed commit in between) makes no call of
\* GetWorkflowExecution and leaves the cached mutable state, the stats and
\* updateCondition as they are; only the hook may stamp the mutable state.
CachedLoadFetchesNothing ==
    [][ (last'.op = "load" /\ ctx[last'.c].msBuilder # Nil)
            => /\ last'.log = <<>>
               /\ ctx'[last'.c].stats = ctx[last'.c].stats
               /\ ctx'[last'.c].updateCondition = ctx[last'.c].updateCondition
               /\ WithoutStamp(ctx'[last'.c].msBuilder)
                      = WithoutStamp(ctx[last'.c].msBuilder) ]_vars

\* a load that found the mutable state cached, with events pending in it
CachedLoadFetchesNothingWitness ==
    /\ last.op = "load"
    /\ last.err = "nil"
    /\ last.log = <<>>
    /\ ctx[last.c].msBuilder # Nil
    /\ ctx[last.c].msBuilder.batches # <<>>

\* C13: a load on a context without a cached mutable state (after clear)
\* calls GetWorkflowExecution once and, when the fetch succeeds, installs the
\* persisted state: the mutable state built from the row, the persisted
\* history size and the persisted NextEventID as updateCondition.
ClearedLoadInstallsPersistence ==
    [][ (last'.op = "load" /\ ctx[last'.c].msBuilder = Nil)
            => /\ Len(last'.log) = 1
               /\ CallsOf(last'.log, {"GetWorkflowExecution"}) = {1}
               /\ last'.log[1].res = "ok"
                    => /\ WithoutStamp(ctx'[last'.c].msBuilder)
                            = WithoutStamp(LoadMutableState(db[RunOf(last'.c)]))
                       /\ ctx'[last'.c].stats
                            = [HistorySize |-> db[RunOf(last'.c)].historySize]
                       /\ ctx'[last'.c].updateCondition
                            = db[RunOf(last'.c)].nextEventID ]_vars

\* a reload of the context after a commit had advanced the row and the
\* cache was dropped
ClearedLoadInstallsPersistenceWitness ==
    /\ last.op = "load"
    /\ last.c = "a"
    /\ last.err = "nil"
    /\ CallsOf(last.log, {"GetWorkflowExecution"}) # {}
    /\ ctx["a"].updateCondition > InitNextEventID
    /\ ctx["a"].stats = [HistorySize |-> db["R1"].historySize]

\* the active updates of coordinator "a" that get as far as the merge in the
\* current state: the closers and the appends succeed, the new run (when
\* paired) is the usual one
ActiveUpdateInputs ==
    { in \in UnpairedInputs("a", "Active") \cup PairedInputs("a", "Active") :
        /\ ctx["a"].msBuilder # Nil
        /\ ctx["a"].stats # Nil
        /\ in.fault = NoFault
        /\ in.paired => in.newMS = UsualNewMutableState /\ ctx[NewContext].stats # Nil }
\* what updateWorkflowExecutionWithNew does with an input in the current state
UpdateResult(in) ==
    updateWorkflowExecutionWithNew(ctx["a"], ctx[NewContext], db["R1"], db["R2"], "R1", in)
\* the current mutation closes as continued-as-new with replication tasks
IsActiveContinueAsNew(in) ==
    ctx["a"].msBuilder.closeStatus = "ContinuedAsNew" /\ in.repl # <<>>
\* the new run's snapshot carries exactly one HistoryReplicationTask
HasNewRunTask(in) ==
    in.paired /\ Len(in.newRepl) = 1 /\ in.newRepl[1].kind = "History"

\* C14: in every successful active continue-as-new commit, each
\* HistoryReplicationTask of the committed mutation carries the branch token
\* and the event store version of the new run's single replication task, the
\* other tasks are as the closer produced them, and the committed snapshot
\* carries no replication task.
MergeStampsNewRun ==
    \A in \in ActiveUpdateInputs :
        (IsActiveContinueAsNew(in) /\ UpdateResult(in).err = "nil")
            => /\ HasNewRunTask(in)
               /\ \A i \in CallsOf(UpdateResult(in).log, {"UpdateWorkflowExecution"}) :
                    LET req == UpdateResult(in).log[i].req
                    IN /\ req.snapshot.ReplicationTasks = <<>>
                       /\ Len(req.mutation.ReplicationTasks) = Len(in.repl)
                       /\ \A k \in 1..Len(in.repl) :
                            req.mutation.ReplicationTasks[k]
                              = IF in.repl[k].kind = "History"
                                THEN [in.repl[k] EXCEPT
                                        !.NewRunBranchToken = in.newRepl[1].BranchToken,
                                        !.NewRunEventStoreVersion =
                                            in.newRepl[1].EventStoreVersion]
                                ELSE in.repl[k]

\* a committed continue-as-new whose mutation carries a task stamped with the
\* branch of the new run, beside a task of another kind
MergeStampsNewRunWitness ==
    /\ last.op = "updateWithNew"
    /\ last.err = "nil"
    /\ \E i \in CallsOf(last.log, {"UpdateWorkflowExecution"}) :
         /\ last.log[i].req.mutation.CloseStatus = "ContinuedAsNew"
         /\ Len(last.log[i].req.mutation.ReplicationTasks) = 2
         /\ last.log[i].req.mutation.ReplicationTasks[1].NewRunBranchToken = "B2"
         /\ last.log[i].req.mutation.ReplicationTasks[1].NewRunEventStoreVersion = 2
         /\ last.log[i].req.snapshot.ReplicationTasks = <<>>

\* C15, as stated: in the active continue-as-new case, when the new snapshot
\* is absent or does not carry exactly one HistoryReplicationTask, the update
\* returns an error, submits no storage update and notifies nothing.
MergeRefusesBadNewRun ==
    \A in \in ActiveUpdateInputs :
        (IsActiveContinueAsNew(in) /\ ~HasNewRunTask(in))
            => /\ ReturnedError(UpdateResult(in))
               /\ CallsOf(UpdateResult(in).log, {"UpdateWorkflowExecution"}) = {}
               /\ \A i \in 1..Len(UpdateResult(in).log) :
                    UpdateResult(in).log[i].type # "notify"

\* C16: in a continue-as-new update whose mutation has no replication task,
\* the commit is submitted with the mutation as the closer produced it and
\* with the replication tasks of the new snapshot unchanged, whatever their
\* number.
MergeKeepsPassiveTasks ==
    \A in \in ActiveUpdateInputs :
        (in.paired /\ ctx["a"].msBuilder.closeStatus = "ContinuedAsNew" /\ in.repl = <<>>)
            => /\ UpdateResult(in).err \in {"nil", "Conflict", "AlreadyStarted"}
               /\ \E i \in CallsOf(UpdateResult(in).log, {"UpdateWorkflowExecution"}) :
                    LET req == UpdateResult(in).log[i].req
                    IN /\ req.snapshot.ReplicationTasks = in.newRepl
                       /\ req.mutation.ReplicationTasks = <<>>
                       /\ [req.mutation EXCEPT !.ExecutionStats = Nil]
                            = CloseTransactionAsMutation(ctx["a"].msBuilder, "R1",
                                                         in.tasks, in.repl).workflow

\* a committed continue-as-new without replication tasks on the mutation and
\* with two replication tasks kept on the new snapshot
MergeKeepsPassiveTasksWitness ==
    /\ last.op = "updateWithNew"
    /\ last.err = "nil"
    /\ \E i \in CallsOf(last.log, {"UpdateWorkflowExecution"}) :
         /\ last.log[i].req.mutation.CloseStatus = "ContinuedAsNew"
         /\ last.log[i].req.mutation.ReplicationTasks = <<>>
         /\ Len(last.log[i].req.snapshot.ReplicationTasks) = 2

\* the snapshot submitted by the last operation to ConflictResolveWorkflowExecution
ResolvedSnapshots ==
    { last.log[i].req.ResetWorkflowSnapshot :
        i \in CallsOf(last.log, {"ConflictResolveWorkflowExecution"}) }
\* the context holds what a load of the snapshot w installs
HoldsSnapshot(cx, w) ==
    /\ cx.msBuilder # Nil
    /\ WithoutStamp(cx.msBuilder) = WithoutStamp(LoadMutableState(RowOf(w)))
    /\ cx.stats = [HistorySize |-> w.ExecutionStats.HistorySize]
    /\ cx.updateCondition = w.NextEventID

\* C17: after a successful conflict-resolve the context holds the state
\* reloaded from the submitted snapshot (history size equal to the supplied
\* resetHistorySize, updateCondition equal to the snapshot's NextEventID, no
\* pending events of the state cached before), the stored row is the
\* snapshot's, and a load that follows fetches nothing and leaves that state
\* in the context (the load itself may still fail in the domain cache).
ConflictResolveInstallsSnapshot ==
    /\ [] ( (last.op = "conflictResolve" /\ last.err = "nil")
              => /\ ResolvedSnapshots # {}
                 /\ \A w \in ResolvedSnapshots :
                      /\ HoldsSnapshot(ctx[last.c], w)
                      /\ db[RunOf(last.c)] = RowOf(w) )
    /\ [][ (last.op = "conflictResolve" /\ last.err = "nil"
              /\ last'.op = "load" /\ last'.c = last.c)
             => /\ last'.log = <<>>
                /\ \A w \in ResolvedSnapshots : HoldsSnapshot(ctx'[last.c], w) ]_vars

\* a successful conflict-resolve that was reloaded from storage, on a row
\* whose NextEventID it moved
ConflictResolveInstallsSnapshotWitness ==
    /\ last.op = "conflictResolve"
    /\ last.err = "nil"
    /\ CallsOf(last.log, {"GetWorkflowExecution"}) # {}
    /\ \E w \in ResolvedSnapshots :
         /\ ctx[last.c].updateCondition = w.NextEventID
         /\ w.NextEventID > InitNextEventID

\* the conflict-resolve inputs of coordinator "a" in the current state
ResolveInputs ==
    IF db["R1"] = Nil THEN {}
    ELSE ConflictResolveInputs("R1", history["R1"], db["R1"].branchToken)
\* what conflictResolveWorkflowExecution does with an input in the current state
ResolveResult(in) ==
    conflictResolveWorkflowExecution(ctx["a"], ctx[NewContext], db["R1"], db["R2"], "R1", in)
\* the closer of the replacement state succeeds and produces event batches
ResolverProducesEvents(in) ==
    /\ ~FailsAt(in.fault, "closeReset")
    /\ Len(CloseTransactionAsSnapshot(in.resetMutableState, "R1", in.tasks, <<>>).events) # 0

\* C18: a conflict-resolve whose replacement mutable state closes with one
\* or more event batches returns an error and makes no call at all: no
\* ConflictResolveWorkflowExecution, no history append, no notification; the
\* context and the stored rows are as before.
ConflictResolveRejectsEvents ==
    \A in \in ResolveInputs :
        ResolverProducesEvents(in)
            => /\ ReturnedError(ResolveResult(in))
               /\ ResolveResult(in).log = <<>>
               /\ ResolveResult(in).cur = ctx["a"]
               /\ ResolveResult(in).rowCur = db["R1"]
               /\ ResolveResult(in).evCur = {}

\* a conflict-resolve refused for its events, on a context that has the
\* mutable state cached
ConflictResolveRejectsEventsWitness ==
    /\ last.op = "conflictResolve"
    /\ last.err = "BadRequest"
    /\ last.log = <<>>
    /\ ctx[last.c].msBuilder # Nil

\* the resets coordinator "a" can be asked for in the current state
ResetCalls ==
    IF ctx["a"].msBuilder # Nil /\ db["R2"] = Nil /\ history["R2"] # {}
    THEN ResetInputs(history["R2"])
    ELSE {}
\* what resetWorkflowExecution does with an input in the current state
ResetResult(in) ==
    resetWorkflowExecution(ctx["a"], ctx[NewContext], db["R1"], db["R2"], in)

\* C20: a reset whose new mutable state has buffered events returns an error
\* before either flush (a failing flush is not reached), before any history
\* append and before any call of ResetWorkflowExecution; nothing is changed.
ResetRejectsBuffered ==
    \A in \in ResetCalls :
        in.newMutableState.buffered
            => /\ ResetResult(in).err = "Internal"
               /\ ResetResult(in).log = <<>>
               /\ ResetResult(in).cur = ctx["a"]
               /\ ResetResult(in).rowCur = db["R1"]
               /\ ResetResult(in).rowNew = db["R2"]
               /\ ResetResult(in).evCur = {}
               /\ ResetResult(in).evNew = {}

\* a reset refused for buffered events, with events of the current run pending
ResetRejectsBufferedWitness ==
    /\ last.op = "reset"
    /\ last.err = "Internal"
    /\ last.log = <<>>
    /\ ctx[last.c].msBuilder # Nil
    /\ ctx[last.c].msBuilder.batches # <<>>

\* the new mutable state of the reset closes with pending children or signals
HasPendingInfos(in) ==
    \/ in.newMutableState.children > 0
    \/ in.newMutableState.signals > 0
    \/ in.newMutableState.signalRequested > 0

\* C19, as stated: each of the four invariant violations (reset with
\* buffered events, active continue-as-new without the expected new-run
\* replication task, conflict-resolve closer producing events, reset snapshot
\* with pending children or signals) returns an internal error, and the
\* operation submits its commit not even once.
InvariantViolationsAreInternal ==
    /\ \A in \in ResetCalls :
         (in.newMutableState.buffered \/ (in.fault = NoFault /\ HasPendingInfos(in)))
            => /\ ResetResult(in).err = "Internal"
               /\ CallsOf(ResetResult(in).log, CommitCalls) = {}
    /\ \A in \in ActiveUpdateInputs :
         (IsActiveContinueAsNew(in) /\ ~HasNewRunTask(in))
            => /\ UpdateResult(in).err = "Internal"
               /\ CallsOf(UpdateResult(in).log, CommitCalls) = {}
    /\ \A in \in ResolveInputs :
         ResolverProducesEvents(in)
            => /\ ResolveResult(in).err = "Internal"
               /\ CallsOf(ResolveResult(in).log, CommitCalls) = {}

\* the reset gets as far as the close of the new mutable state
ReachesCloseOfNewRun(in) ==
    in.fault = NoFault /\ ~in.newMutableState.buffered
\* the event batches the closer of the new mutable state returns
ResetBatches(in) ==
    CloseTransactionAsSnapshot([in.newMutableState EXCEPT !.buffered = FALSE],
                               "R2", UsualTasks("R2"), <<>>).events
\* the reset requests the last operation submitted
ResetRequests ==
    { last.log[i].req : i \in CallsOf(last.log, {"ResetWorkflowExecution"}) }

\* C21: a reset whose new mutable state closes with zero or with two or more
\* event batches returns an error, calls ResetWorkflowExecution never, and
\* appends nothing to the new run; the stored rows are as before.
ResetRejectsBatchCount ==
    \A in \in ResetCalls :
        (ReachesCloseOfNewRun(in) /\ Len(ResetBatches(in)) # 1)
            => /\ ReturnedError(ResetResult(in))
               /\ CallsOf(ResetResult(in).log, {"ResetWorkflowExecution"}) = {}
               /\ AppendsTo(ResetResult(in).log, "R2") = {}
               /\ ResetResult(in).rowCur = db["R1"]
               /\ ResetResult(in).rowNew = db["R2"]

\* a reset refused after the history of the current run was appended and
\* before anything was appended to the new run
ResetRejectsBatchCountWitness ==
    /\ last.op = "reset"
    /\ last.err = "Internal"
    /\ AppendsTo(last.log, "R1") # {}
    /\ AppendsTo(last.log, "R2") = {}
    /\ ResetRequests = {}

\* C22: a reset whose new snapshot carries a pending child execution, signal
\* info or signal-requested ID returns an error and calls
\* ResetWorkflowExecution never; every reset request that is submitted has the
\* three collections empty on its new snapshot.
ResetRejectsPendingInfos ==
    /\ \A in \in ResetCalls :
         (ReachesCloseOfNewRun(in) /\ HasPendingInfos(in))
            => /\ ReturnedError(ResetResult(in))
               /\ CallsOf(ResetResult(in).log, {"ResetWorkflowExecution"}) = {}
               /\ ResetResult(in).rowCur = db["R1"]
               /\ ResetResult(in).rowNew = db["R2"]
    /\ \A in \in ResetCalls :
         \A i \in CallsOf(ResetResult(in).log, {"ResetWorkflowExecution"}) :
            LET w == ResetResult(in).log[i].req.NewWorkflowSnapshot
            IN /\ w.ChildExecutionInfos = 0
               /\ w.SignalInfos = 0
               /\ w.SignalRequestedIDs = 0
    /\ \A req \in ResetRequests :
         /\ req.NewWorkflowSnapshot.ChildExecutionInfos = 0
         /\ req.NewWorkflowSnapshot.SignalInfos = 0
         /\ req.NewWorkflowSnapshot.SignalRequestedIDs = 0

\* a reset refused after the batch of the new run was appended
ResetRejectsPendingInfosWitness ==
    /\ last.op = "reset"
    /\ last.err = "Internal"
    /\ AppendsTo(last.log, "R2") # {}
    /\ ResetRequests = {}

\* the positions of the append calls for run r in a log
AppendCallsFor(log, r) ==
    { i \in CallsOf(log, AppendCalls) : log[i].req.RunID = r }
\* the number of events the history builder of the cached mutable state holds
PendingEvents == Sum(ctx["a"].msBuilder.batches)

\* C23: on a successful reset with updateCurr, the history of the current run
\* is appended in one call (none when its history builder holds no event) and
\* the one batch of the new run in one call; the one request submitted has a
\* current mutation with Condition equal to the updateCondition of the
\* context before the reset, no upsert and no delete, the close and cleanup
\* tasks and the supplied current replication tasks; its new snapshot has
\* HistorySize equal to newHistorySize plus the size of the appended batch
\* and the supplied transfer, timer and replication tasks; the tasks of the
\* new run and then those of the current run are notified.
ResetSubmitsBothRuns ==
    \A in \in ResetCalls :
        (in.updateCurr /\ ResetResult(in).err = "nil")
            => LET log == ResetResult(in).log
                   calls == CallsOf(log, {"ResetWorkflowExecution"})
               IN /\ Cardinality(AppendCallsFor(log, "R1"))
                        = IF PendingEvents > 0 THEN 1 ELSE 0
                  /\ \A i \in AppendCallsFor(log, "R1") :
                        log[i].req.Count = PendingEvents
                  /\ Cardinality(AppendCallsFor(log, "R2")) = 1
                  /\ Cardinality(calls) = 1
                  /\ \A i \in calls :
                       LET m == log[i].req.CurrentWorkflowMutation
                           w == log[i].req.NewWorkflowSnapshot
                       IN /\ m # Nil
                          /\ m.Condition = ctx["a"].updateCondition
                          /\ m.UpsertsAndDeletes = 0
                          /\ m.TransferTasks = in.closeTask
                          /\ m.TimerTasks = in.cleanupTask
                          /\ m.ReplicationTasks = in.currReplicationTasks
                          /\ w.ExecutionStats.HistorySize
                                = in.newHistorySize
                                  + Sum(in.newMutableState.batches) * EventSize
                          /\ w.TransferTasks = in.newTransferTasks
                          /\ w.TimerTasks = in.newTimerTasks
                          /\ w.ReplicationTasks = in.newReplicationTasks
                          /\ AppendCallsFor(log, "R1") \cup AppendCallsFor(log, "R2")
                                \subseteq 1..(i - 1)
                          /\ SubSeq(log, i + 1, Len(log))
                                = notifyTasks(in.newTransferTasks, in.newReplicationTasks,
                                              in.newTimerTasks)
                                  \o notifyTasks(in.closeTask, in.currReplicationTasks,
                                                 in.cleanupTask)

\* a successful reset that terminated the current run: both histories
\* appended, a condition that is not the NextEventID of the mutable state
ResetSubmitsBothRunsWitness ==
    /\ last.op = "reset"
    /\ last.err = "nil"
    /\ AppendsTo(last.log, "R1") # {}
    /\ AppendsTo(last.log, "R2") # {}
    /\ \E req \in ResetRequests :
         /\ req.CurrentWorkflowMutation # Nil
         /\ req.CurrentWorkflowMutation.Condition < req.CurrentRunNextEventID
         /\ req.CurrentWorkflowMutation.ReplicationTasks # <<>>
         /\ req.CurrentWorkflowMutation.TransferTasks # <<>>

\* the context after the fetch of a load, before the hook
Fetched == loadWorkflowExecutionInternal(ctx["a"], db["R1"], FALSE)
\* the hook has to stamp: global domains enabled, replication state present,
\* workflow running
HookApplies(global) ==
    /\ global
    /\ Fetched.cx.msBuilder.replicated
    /\ Fetched.cx.msBuilder.closeStatus = "None"

\* C24: a load stamps the mutable state with the failover version and the
\* replication policy of the domain exactly when global domains are enabled,
\* the workflow has replication state and the workflow is running; otherwise
\* the load leaves the mutable state as fetched or as cached and does not
\* depend on the domain cache (it succeeds when the lookup would fail); a
\* load never changes the version or the policy of a workflow that is not
\* running.
HookStampsRunningGlobal ==
    /\ [] ( \A global \in BOOLEAN, domain \in FailoverDomainEntries :
              LET l == loadWorkflowExecution(ctx["a"], db["R1"], FALSE, global, domain)
              IN Fetched.err = "nil"
                   => IF HookApplies(global)
                      THEN IF domain.err
                           THEN l.err = "DomainCache" /\ l.cx = Fetched.cx
                           ELSE /\ l.err = "nil"
                                /\ l.cx = [Fetched.cx EXCEPT
                                             !.msBuilder.version = domain.failoverVersion,
                                             !.msBuilder.replicationPolicy =
                                                 domain.replicationPolicy]
                      ELSE l.err = "nil" /\ l.cx = Fetched.cx )
    /\ [][ (last'.op = "load" /\ ctx["a"].msBuilder # Nil
              /\ ctx["a"].msBuilder.closeStatus # "None")
             => ctx'["a"].msBuilder = ctx["a"].msBuilder ]_vars

\* a load that stamped a running workflow with the version and the policy of
\* a domain that failed over
HookStampsRunningGlobalWitness ==
    /\ last.op = "load"
    /\ last.err = "nil"
    /\ ctx["a"].msBuilder # Nil
    /\ ctx["a"].msBuilder.closeStatus = "None"
    /\ ctx["a"].msBuilder.version = InitVersion + 1
    /\ ctx["a"].msBuilder.replicationPolicy = "MultiCluster"
    /\ db["R1"].version = InitVersion

\* the call in progress went through the retry harness and has returned
WrappedReturned == harness.state = "returned" /\ harness.call \in WrappedCalls

\* C25: a storage call made through the retry harness is attempted again
\* after every transient error until an attempt succeeds, fails with an
\* error that is not transient, or the attempt budget is used up; the error
\* returned is that of the last attempt; an error that is not transient is
\* returned after a single attempt on it; and every call returns.
RetryUntilSettled ==
    /\ [] ( harness.call \in WrappedCalls
              => /\ Len(harness.attempts) <= RetryBudget
                 /\ \A i \in 1..(Len(harness.attempts) - 1) :
                      IsPersistenceTransientError(harness.attempts[i])
                 /\ harness.state = "running"
                      => \A i \in 1..Len(harness.attempts) :
                            IsPersistenceTransientError(harness.attempts[i]) )
    /\ [] ( WrappedReturned
              => LET n == Len(harness.attempts)
                 IN /\ n >= 1
                    /\ harness.err
                         = IF harness.attempts[n] = "ok" THEN "nil"
                           ELSE harness.attempts[n]
                    /\ IsPersistenceTransientError(harness.err) => n = RetryBudget )
    /\ [][ (harness.state = "running" /\ harness.call \in WrappedCalls
              /\ harness'.state = "running")
             => /\ Len(harness'.attempts) = Len(harness.attempts) + 1
                /\ Len(harness'.attempts) < RetryBudget ]_vars
    /\ (harness.state = "running" /\ harness.call \in WrappedCalls)
          ~> (harness.state = "returned")

\* a wrapped call that returned the last transient error once the budget was
\* used up
RetryUntilSettledWitness ==
    /\ WrappedReturned
    /\ Len(harness.attempts) = RetryBudget
    /\ IsPersistenceTransientError(harness.err)

\* C26, as stated: every storage call of the coordinator (get, the two
\* appends, create, update, conflict-resolve, reset) goes through the retry
\* policy, so that a single transient fault is never returned to the caller
\* on its first occurrence.
EveryCallIsRetried ==
    (harness.state = "returned" /\ harness.call \in StorageCalls
        /\ IsPersistenceTransientError(harness.err))
        => Len(harness.attempts) > 1

\* the creates the context of the new run can be asked for in the current state
CreateCalls ==
    IF history["R2"] = {} THEN {} ELSE CreateInputs("R2", history["R2"])
\* what createWorkflowExecution does with an input in the current state
CreateResult(in) ==
    createWorkflowExecution(ctx[NewContext], ctx[NewContext], db["R2"], db["R2"], in)

\* C27: createWorkflowExecution submits one create request that carries the
\* supplied createMode, prevRunID and prevLastWriteVersion and the supplied
\* snapshot with ExecutionStats.HistorySize set to the supplied historySize;
\* on success it notifies the transfer, replication and timer tasks of the
\* snapshot and nothing else; on an error, workflow-already-started included,
\* it returns the error of the call and notifies nothing.
CreateSubmitsSnapshot ==
    \A in \in CreateCalls :
        LET res == CreateResult(in)
        IN /\ CallsOf(res.log, CommitCalls) = {1}
           /\ res.log[1].name = "CreateWorkflowExecution"
           /\ res.log[1].req
                = [CreateWorkflowMode |-> in.createMode,
                   PreviousRunID |-> in.prevRunID,
                   PreviousLastWriteVersion |-> in.prevLastWriteVersion,
                   NewWorkflowSnapshot |->
                       [in.newWorkflow EXCEPT
                           !.ExecutionStats = [HistorySize |-> in.historySize]]]
           /\ IF res.log[1].res = "ok"
              THEN /\ res.err = "nil"
                   /\ SubSeq(res.log, 2, Len(res.log))
                        = notifyTasks(in.newWorkflow.TransferTasks,
                                      in.newWorkflow.ReplicationTasks,
                                      in.newWorkflow.TimerTasks)
              ELSE /\ res.err = res.log[1].res
                   /\ Len(res.log) = 1
                   /\ res.rowCur = db["R2"]

\* a create that named a previous run, stored the row with the supplied
\* history size and notified the tasks of its snapshot
CreateSubmitsSnapshotWitness ==
    /\ last.op = "create"
    /\ last.err = "nil"
    /\ last.log[1].req.PreviousRunID = "R1"
    /\ last.log[1].req.CreateWorkflowMode = "WorkflowIDReuse"
    /\ db["R2"] # Nil
    /\ db["R2"].historySize = last.log[1].req.NewWorkflowSnapshot.ExecutionStats.HistorySize
    /\ Len(last.log) = 4

\* the bytes the successful appends of a log stored for run r
RECURSIVE AppendedSize(_, _)
AppendedSize(log, r) ==
    IF log = <<>> THEN 0
    ELSE (IF Head(log).type = "call" /\ Head(log).name \in AppendCalls
             /\ Head(log).req.RunID = r /\ Head(log).res = "ok"
          THEN Head(log).req.Count * EventSize ELSE 0)
         + AppendedSize(Tail(log), r)

\* C28: after a successful update the history size of the context is its
\* value before the update plus the sizes returned by the appends of the
\* event batches of the current run in that update, and the committed
\* mutation carries the same total in ExecutionStats.HistorySize.
UpdateAddsAppendedSize ==
    [][ (IsUpdateOp(last') /\ last'.err = "nil")
            => LET total == ctx[last'.c].stats.HistorySize
                              + AppendedSize(last'.log, RunOf(last'.c))
               IN /\ ctx'[last'.c].stats = [HistorySize |-> total]
                  /\ CallsOf(last'.log, {"UpdateWorkflowExecution"}) # {}
                  /\ \A i \in CallsOf(last'.log, {"UpdateWorkflowExecution"}) :
                       last'.log[i].req.mutation.ExecutionStats
                           = [HistorySize |-> total]
                  /\ db'[RunOf(last'.c)].historySize = total ]_vars

\* a successful update that appended two batches of the current run
UpdateAddsAppendedSizeWitness ==
    /\ IsUpdateOp(last)
    /\ last.err = "nil"
    /\ Cardinality(AppendsTo(last.log, RunOf(last.c))) = 2
    /\ ctx[last.c].stats.HistorySize
         = (InitNextEventID - 1) * EventSize + 2 * EventSize

\* the unpaired updates of coordinator "a" whose mutation has no new event
\* in the current state and whose closer succeeds
EventlessUpdateInputs ==
    { in \in UnpairedInputs("a", "Active") \cup UnpairedInputs("a", "Passive") :
        /\ ctx["a"].msBuilder # Nil
        /\ ctx["a"].stats # Nil
        /\ Sum(ctx["a"].msBuilder.batches) = 0
        /\ ~FailsAt(in.fault, "closeCurrent")
        /\ ~IsActiveContinueAsNew(in) }

\* C29: an update whose mutation has no new event (no batch, or only empty
\* batches) makes no history append call and still submits the commit, with
\* the history size of the context as it was; on success the history size is
\* unchanged and updateCondition is the NextEventID of the mutation.
EventlessUpdateCommits ==
    \A in \in EventlessUpdateInputs :
        LET res == UpdateResult(in)
        IN /\ CallsOf(res.log, AppendCalls) = {}
           /\ CallsOf(res.log, CommitCalls) = {1}
           /\ res.log[1].name = "UpdateWorkflowExecution"
           /\ res.log[1].req.mutation.ExecutionStats = ctx["a"].stats
           /\ res.log[1].req.mutation.NextEventID = ctx["a"].msBuilder.nextEventID
           /\ res.evCur = {}
           /\ res.err = "nil"
                => /\ res.cur.stats = ctx["a"].stats
                   /\ res.cur.updateCondition = res.log[1].req.mutation.NextEventID
                   /\ res.rowCur.historySize = ctx["a"].stats.HistorySize

\* a successful update that appended nothing and committed tasks
EventlessUpdateCommitsWitness ==
    /\ last.op = "update"
    /\ last.err = "nil"
    /\ CallsOf(last.log, AppendCalls) = {}
    /\ CallsOf(last.log, CommitCalls) = {1}
    /\ last.log[1].req.mutation.TransferTasks # <<>>
    /\ ctx[last.c].updateCondition = last.log[1].req.mutation.NextEventID

\* the event batches an appender can be handed
WorkflowEvents ==
    [RunID : Runs, BranchToken : {"", "B2"}, FirstEventID : 1..MaxEventID,
     Version : InitVersion..(InitVersion + 1), Count : 0..MaxBatches]
\* the request the legacy per-workflow append gets for a batch
LegacyRequest(we) ==
    [RunID |-> we.RunID, FirstEventID |-> we.FirstEventID,
     EventBatchVersion |-> we.Version, Count |-> we.Count]
\* the request the branch-tree append gets for a batch
BranchRequest(we, isNewBranch) ==
    [RunID |-> we.RunID, BranchToken |-> we.BranchToken, IsNewBranch |-> isNewBranch,
     FirstEventID |-> we.FirstEventID, Count |-> we.Count]
\* the one call an appender made is the call `name` with the request `req`
IsOneCall(log, name, req) ==
    Len(log) = 1 /\ log[1].type = "call" /\ log[1].name = name /\ log[1].req = req

\* C30: for every non-empty batch both appenders make one call: the legacy
\* per-workflow append, with the FirstEventID and the version of the batch's
\* first event, exactly when the branch token of the batch is empty, and the
\* branch-tree append otherwise, with IsNewBranch true from the first-batch
\* path and false from the non-first path; in every operation a branch-tree
\* append with IsNewBranch true comes only from a paired update, for its new
\* run.
AppenderSelectsStore ==
    /\ \A we \in WorkflowEvents, fail \in BOOLEAN :
         we.Count > 0
            => LET first == persistFirstWorkflowEvents(we, fail).log
                   nonFirst == persistNonFirstWorkflowEvents(we, fail).log
               IN IF we.BranchToken = ""
                  THEN /\ IsOneCall(first, "AppendHistoryEvents", LegacyRequest(we))
                       /\ IsOneCall(nonFirst, "AppendHistoryEvents", LegacyRequest(we))
                  ELSE /\ IsOneCall(first, "AppendHistoryV2Events",
                                    BranchRequest(we, TRUE))
                       /\ IsOneCall(nonFirst, "AppendHistoryV2Events",
                                    BranchRequest(we, FALSE))
    /\ \A i \in CallsOf(last.log, {"AppendHistoryV2Events"}) :
         /\ last.log[i].req.BranchToken # ""
         /\ last.log[i].req.IsNewBranch
              <=> (last.op \in {"updateWithNew", "persistFirst"}
                     /\ last.log[i].req.RunID = "R2")
    /\ \A i \in CallsOf(last.log, {"AppendHistoryEvents"}) :
         /\ last.log[i].req.Count > 0
         /\ last.op = "updateWithNew" \/ last.log[i].req.RunID = RunOf(last.c)

\* a paired update that appended the batch of the current run with the
\* legacy append and the first batch of the new run to a new branch
AppenderSelectsStoreWitness ==
    /\ last.op = "updateWithNew"
    /\ \E i \in CallsOf(last.log, {"AppendHistoryEvents"}) :
         /\ last.log[i].req.RunID = "R1"
         /\ last.log[i].req.EventBatchVersion = InitVersion
         /\ last.log[i].res = "ok"
    /\ \E i \in CallsOf(last.log, {"AppendHistoryV2Events"}) :
         /\ last.log[i].req.RunID = "R2"
         /\ last.log[i].req.IsNewBranch
         /\ last.log[i].res = "ok"

\* C31: given a batch without events, persistFirstWorkflowEvents returns an
\* error and size 0 and persistNonFirstWorkflowEvents returns no error and
\* size 0; neither makes a storage call nor stores an event, whether storage
\* would fail or not.
EmptyBatchFirstRejected ==
    /\ \A we \in WorkflowEvents, fail \in BOOLEAN :
         we.Count = 0
            => /\ persistFirstWorkflowEvents(we, fail).err = "Internal"
               /\ persistFirstWorkflowEvents(we, fail).size = 0
               /\ persistFirstWorkflowEvents(we, fail).log = <<>>
               /\ persistFirstWorkflowEvents(we, fail).events = {}
               /\ persistNonFirstWorkflowEvents(we, fail).err = "nil"
               /\ persistNonFirstWorkflowEvents(we, fail).size = 0
               /\ persistNonFirstWorkflowEvents(we, fail).log = <<>>
               /\ persistNonFirstWorkflowEvents(we, fail).events = {}
    /\ (last.op = "persistFirst" /\ last.log = <<>>)
          => last.err = "Internal" /\ history["R2"] = {}

\* the caller of a new run handed its first-batch path a batch without events
EmptyBatchFirstRejectedWitness ==
    /\ last.op = "persistFirst"
    /\ last.err = "Internal"
    /\ last.log = <<>>
    /\ history["R2"] = {}

\* the positions of the history-event notifications in a log
HistoryEventNotifications(log) ==
    { i \in 1..Len(log) : log[i].type = "notify" /\ log[i].name = "NotifyNewHistoryEvent" }

\* C32: a successful update emits one history-event notification, right
\* after the storage commit (updateCondition is then the NextEventID of the
\* mutation) and before the task fanout of the current and then of the new
\* workflow; an update that fails emits none.
UpdateNotifiesHistoryOnce ==
    IsUpdateOp(last)
        => IF last.err = "nil"
           THEN \E j \in CallsOf(last.log, {"UpdateWorkflowExecution"}) :
                  LET m == last.log[j].req.mutation
                      w == last.log[j].req.snapshot
                  IN /\ last.log[j].res = "ok"
                     /\ HistoryEventNotifications(last.log) = {j + 1}
                     /\ ctx[last.c].updateCondition = m.NextEventID
                     /\ SubSeq(last.log, j + 2, Len(last.log))
                          = notifyTasks(m.TransferTasks, m.ReplicationTasks, m.TimerTasks)
                            \o (IF w = Nil THEN <<>>
                                ELSE notifyTasks(w.TransferTasks, w.ReplicationTasks,
                                                 w.TimerTasks))
           ELSE HistoryEventNotifications(last.log) = {}

\* a successful paired update: one history-event notification, then the
\* tasks of both workflows
UpdateNotifiesHistoryOnceWitness ==
    /\ last.op = "updateWithNew"
    /\ last.err = "nil"
    /\ Cardinality(HistoryEventNotifications(last.log)) = 1
    /\ \E j \in CallsOf(last.log, {"UpdateWorkflowExecution"}) :
         /\ last.log[j].req.snapshot # Nil
         /\ Len(last.log) = j + 7

\* the tasks the notifications of a log hand over
NotifiedTasks(log) ==
    UNION { { log[i].tasks[k] : k \in 1..Len(log[i].tasks) } :
              i \in { n \in 1..Len(log) : log[n].type = "notify" } }

\* C33: a reset with updateCurr = false appends nothing to the current run,
\* leaves the context (its history size included) and the stored row of the
\* current run as they are, submits a request without current mutation, and
\* notifies the tasks of the new snapshot only: closeTask and cleanupTask are
\* in no request and in no notification.
ResetWithoutCurrent ==
    \A in \in ResetCalls :
        ~in.updateCurr
            => LET r == ResetResult(in)
                   sub == CallsOf(r.log, {"ResetWorkflowExecution"})
               IN /\ AppendCallsFor(r.log, "R1") = {}
                  /\ r.evCur = {}
                  /\ r.cur = ctx["a"]
                  /\ r.rowCur = db["R1"]
                  /\ \A i \in sub :
                       /\ r.log[i].req.CurrentWorkflowMutation = Nil
                       /\ \A t \in Range(in.closeTask) \cup Range(in.cleanupTask) :
                            /\ t \notin Range(r.log[i].req.NewWorkflowSnapshot.TransferTasks)
                            /\ t \notin Range(r.log[i].req.NewWorkflowSnapshot.TimerTasks)
                  /\ NotifiedTasks(r.log) \cap (Range(in.closeTask) \cup Range(in.cleanupTask)) = {}
                  /\ r.err = "nil"
                       => \E i \in sub :
                            /\ SubSeq(r.log, i + 1, Len(r.log))
                                 = notifyTasks(r.log[i].req.NewWorkflowSnapshot.TransferTasks,
                                               r.log[i].req.NewWorkflowSnapshot.ReplicationTasks,
                                               r.log[i].req.NewWorkflowSnapshot.TimerTasks)
                            /\ in.closeTask # <<>> => NotifiedTasks(r.log) # {}
                  /\ r.err # "nil" => NotifiedTasks(r.log) = {}

\* a successful reset that left the current run alone: the request has no
\* current mutation, the fanout is the one of the new snapshot
ResetWithoutCurrentWitness ==
    /\ last.op = "reset"
    /\ last.err = "nil"
    /\ AppendCallsFor(last.log, "R1") = {}
    /\ \E req \in ResetRequests : req.CurrentWorkflowMutation = Nil
    /\ NotifiedTasks(last.log) # {}

\* the step was a load of context c whose storage fetch succeeded
FetchedBy(l, c) ==
    /\ l.op = "load"
    /\ l.c = c
    /\ \E i \in CallsOf(l.log, {"GetWorkflowExecution"}) : l.log[i].res = "ok"
\* the step was an update of context c that returned nil after its commit
CommittedBy(l, c) ==
    /\ IsUpdateOp(l)
    /\ l.c = c
    /\ l.err = "nil"
    /\ \E i \in CallsOf(l.log, {"UpdateWorkflowExecution"}) : l.log[i].res = "ok"

\* C34: clear drops the cached mutable state and the stats and nothing else;
\* updateCondition of a context changes only in a load whose fetch succeeded
\* (to the stored NextEventID) or in an update that committed (to the
\* NextEventID of the mutation); a clear and an update that fails or panics
\* leave it as it was.
UpdateConditionChangesOnly ==
    [][ \A c \in Contexts :
          /\ (last'.op = "clear" /\ last'.c = c)
                => /\ Cleared(ctx'[c])
                   /\ ctx'[c].updateCondition = ctx[c].updateCondition
                   /\ ctx'[c].mutex = ctx[c].mutex
          /\ (IsUpdateOp(last') /\ last'.err # "nil")
                => ctx'[c].updateCondition = ctx[c].updateCondition
          /\ ctx'[c].updateCondition # ctx[c].updateCondition
                => \/ /\ FetchedBy(last', c)
                      /\ ctx'[c].updateCondition = db[RunOf(c)].nextEventID
                   \/ /\ CommittedBy(last', c)
                      /\ \E i \in CallsOf(last'.log, {"UpdateWorkflowExecution"}) :
                           ctx'[c].updateCondition = last'.log[i].req.mutation.NextEventID
      ]_vars

\* a clear after a commit: the cache is gone, the condition the commit set
\* is still there
UpdateConditionChangesOnlyWitness ==
    /\ last.op = "clear"
    /\ last.c = "a"
    /\ Cleared(ctx["a"])
    /\ ctx["a"].updateCondition > InitNextEventID

\* the paired updates whose new mutable state closes with a batch sequence
\* that is not exactly one batch, on a loaded context
OddPairedInputs ==
    { in \in PairedInputs("a", "Active") \cup PairedInputs("a", "Passive") :
        /\ ctx["a"].msBuilder # Nil
        /\ ctx["a"].stats # Nil
        /\ ctx[NewContext].stats # Nil
        /\ in.fault = NoFault
        /\ Len(in.newMS.batches) # 1 }

\* C35: a paired update whose new mutable state closes with no batch or with
\* more than one batch returns an error, submits no UpdateWorkflowExecution
\* and leaves both contexts cleared.
PairedRunContributesOneBatch ==
    \A in \in OddPairedInputs :
        LET r == UpdateResult(in)
        IN /\ r.err \notin {"nil", "panic"}
           /\ CallsOf(r.log, {"UpdateWorkflowExecution"}) = {}
           /\ r.rowCur = db["R1"]
           /\ r.rowNew = db["R2"]
           /\ Cleared(r.cur)
           /\ Cleared(r.new)

\* coordinator "a", the one writer of run R1, returned from a commit
\* operation and still has the mutable state cached
ReturnedFromCommitCached ==
    /\ last.op \in {"update", "updateWithNew", "conflictResolve", "reset"}
    /\ last.c = "a"
    /\ last.err # "panic"
    /\ ctx["a"].msBuilder # Nil

\* C36: when a commit operation of the one writer of a run returns with the
\* mutable state still cached, updateCondition is the NextEventID stored for
\* the run.
ConditionTracksStoredRow ==
    ReturnedFromCommitCached => ctx["a"].updateCondition = db["R1"].nextEventID

\* C37: when a commit operation of the one writer of a run returns, with nil
\* or with an error, and the mutable state is still cached, the cached
\* history size is the HistorySize stored for the run.
SizeTracksStoredRow ==
    ReturnedFromCommitCached
        => /\ ctx["a"].stats # Nil
           /\ ctx["a"].stats.HistorySize = db["R1"].historySize

\* the reset runs into one of the invariant checks: buffered events on the
\* new mutable state, a batch count other than one, pending infos
ViolatesResetInvariant(in) ==
    \/ in.newMutableState.buffered
    \/ /\ ReachesCloseOfNewRun(in)
       /\ (Len(ResetBatches(in)) # 1 \/ HasPendingInfos(in))

\* C38: a reset that returns an error for an invariant violation has
\* appended no history event for either run and has left the history size
\* of the context as it was.
ResetViolationAppendsNothing ==
    \A in \in ResetCalls :
        ViolatesResetInvariant(in)
            => LET r == ResetResult(in)
               IN /\ ReturnedError(r)
                  /\ AppendsTo(r.log, "R1") = {}
                  /\ AppendsTo(r.log, "R2") = {}
                  /\ r.evCur = {}
                  /\ r.evNew = {}
                  /\ r.cur.stats = ctx["a"].stats

\* the loads of context c in the current state, by the outcome of the fetch
\* and the answer of the domain cache
LoadCalls == { [fail |-> f, domain |-> d] : f \in BOOLEAN, d \in DomainEntries }
LoadResult(c, in) ==
    loadWorkflowExecution(ctx[c], db[RunOf(c)], in.fail, TRUE, in.domain)
\* what a successful fetch installs in context c
Installed(c) ==
    [ctx[c] EXCEPT !.msBuilder = LoadMutableState(db[RunOf(c)]),
                   !.stats = [HistorySize |-> db[RunOf(c)].historySize],
                   !.updateCondition = db[RunOf(c)].nextEventID]
\* the hook looks the domain up for this mutable state
HookLooksUp(ms) == ms.replicated /\ IsWorkflowExecutionRunning(ms)

\* C39: a load that fetches and whose domain lookup fails returns the error
\* of the lookup and leaves the fetched mutable state, stats and
\* updateCondition in the context; a load on a cached mutable state calls
\* the storage never and runs the hook again: it fails when the lookup
\* fails and stamps the failover version when it succeeds.
LoadKeepsFetchedOnHookError ==
    /\ \A c \in {"a", "n"} : \A in \in LoadCalls :
         LET l == LoadResult(c, in)
         IN /\ (ctx[c].msBuilder = Nil /\ db[RunOf(c)] # Nil /\ ~in.fail
                  /\ HookLooksUp(Installed(c).msBuilder) /\ in.domain.err)
                 => /\ l.err = "DomainCache"
                    /\ l.cx = Installed(c)
                    /\ l.log = <<CallEntry("GetWorkflowExecution", Nil, "ok")>>
            /\ ctx[c].msBuilder # Nil
                 => /\ l.log = <<>>
                    /\ (HookLooksUp(ctx[c].msBuilder) /\ in.domain.err)
                         => l.err = "DomainCache" /\ l.cx = ctx[c]
                    /\ (HookLooksUp(ctx[c].msBuilder) /\ ~in.domain.err)
                         => /\ l.err = "nil"
                            /\ l.cx.msBuilder.version = in.domain.failoverVersion
    /\ (last.op = "load" /\ last.err = "DomainCache")
         => /\ ctx[last.c].msBuilder # Nil
            /\ ctx[last.c].stats # Nil
            /\ \A in \in LoadCalls : LoadResult(last.c, in).log = <<>>

\* a load that fetched and failed in the hook: the fetched state is cached
LoadKeepsFetchedOnHookErrorWitness ==
    /\ last.op = "load"
    /\ last.err = "DomainCache"
    /\ last.log = <<CallEntry("GetWorkflowExecution", Nil, "ok")>>
    /\ ctx[last.c].msBuilder = LoadMutableState(db[RunOf(last.c)])
    /\ ctx[last.c].updateCondition = db[RunOf(last.c)].nextEventID

\* the error of a fetch of context c that fails
FetchError(c, in) == IF in.fail THEN "Storage" ELSE "NotExists"

\* C40: a load whose fetch fails, with a storage error or because the run
\* does not exist, returns the error of the fetch as it is and leaves the
\* context as it was (no mutable state, stats and updateCondition as
\* before); the load after it fetches again.
FailedFetchInstallsNothing ==
    /\ \A c \in {"a", "n"} : \A in \in LoadCalls :
         (ctx[c].msBuilder = Nil /\ (in.fail \/ db[RunOf(c)] = Nil))
            => LET l == LoadResult(c, in)
               IN /\ l.err = FetchError(c, in)
                  /\ l.cx = ctx[c]
                  /\ l.log = <<CallEntry("GetWorkflowExecution", Nil, FetchError(c, in))>>
    /\ (last.op = "load" /\ last.err \in {"Storage", "NotExists"})
         => /\ ctx[last.c].msBuilder = Nil
            /\ \A in \in LoadCalls :
                 /\ Len(LoadResult(last.c, in).log) = 1
                 /\ IsCall(LoadResult(last.c, in).log[1], "GetWorkflowExecution")

\* a load that failed in the fetch after a clear: nothing is cached, the
\* condition of the earlier load is still there
FailedFetchInstallsNothingWitness ==
    /\ last.op = "load"
    /\ last.c = "a"
    /\ last.err = "Storage"
    /\ Cleared(ctx["a"])
    /\ ctx["a"].updateCondition >= InitNextEventID

====
